---- MODULE Spec2Model ----
(***************************************************************************)
(* SMHI data quality monitor: the resilient fetcher, the schema and range  *)
(* validators and the dashboard pipeline, as state machines.               *)
(***************************************************************************)
EXTENDS Integers, Sequences, FiniteSets, TLC

VARIABLES
    max_retries,     \* BaseClient.max_retries
    pc,              \* position of _make_request: "request", "backoff", "done"
    attempt,         \* loop variable of _make_request
    calls,           \* the requests issued so far, each with what came back
    sleeps,          \* the delays handed to time.sleep so far
    last_exception,  \* last_exception of _make_request
    result,          \* what _make_request returned or raised
    data,            \* the raw response handed to validate_observation_response
    response_type,   \* its response_type argument
    validation,      \* what validate_observation_response returned
    range_value,       \* check_range: value (in tenths)
    range_parameter,   \* check_range: parameter
    custom_thresholds, \* check_range: custom_thresholds
    range_result,      \* the RangeCheckResult returned
    station_ids,     \* render_comparison_tab: the stations selected
    batch_pc,        \* its position: "start", "fetching", "done"
    fetched,         \* per station visited: the response and what fetch_observations returned
    all_data,        \* all_data: station and analysis, in insertion order
    st_messages,     \* what st.error and st.warning showed
    table_rows,      \* the rows of the quality score comparison table
    score_results,       \* calculate_range_validity_score: results
    range_score,         \* the score it returned
    completeness_args,   \* analyze_completeness: its arguments
    completeness_result, \* the CompletenessResult returned
    anomaly_args,        \* the detectors: values, timestamps, parameter, methods, ...
    anomaly_result,      \* the list of anomalies returned
    quality_args,        \* calculate_quality_score: its arguments but schema_valid
    quality_scores,      \* the QualityScore returned, per schema_valid
    anomaly_rate,        \* what calculate_anomaly_rate returned for the anomalies
    aggregate_args,      \* aggregate_station_scores: scores
    aggregate_result     \* the QualityScore it returned

fetchVars == <<max_retries, pc, attempt, calls, sleeps, last_exception, result>>

schemaVars == <<data, response_type, validation>>

rangeVars == <<range_value, range_parameter, custom_thresholds, range_result>>

batchVars == <<station_ids, batch_pc, fetched, all_data, st_messages, table_rows>>

scoreVars == <<score_results, range_score>>

completenessVars == <<completeness_args, completeness_result>>

anomalyVars == <<anomaly_args, anomaly_result, anomaly_rate>>

scorerVars == <<quality_args, quality_scores, aggregate_args, aggregate_result>>

vars == <<fetchVars, schemaVars, rangeVars, batchVars,
          scoreVars, completenessVars, anomalyVars, scorerVars>>

(* What each component leaves alone.                                       *)
notFetch == <<schemaVars, rangeVars, batchVars,
              scoreVars, completenessVars, anomalyVars, scorerVars>>

notSchema == <<fetchVars, rangeVars, batchVars,
              scoreVars, completenessVars, anomalyVars, scorerVars>>

notRange == <<fetchVars, schemaVars, batchVars,
              scoreVars, completenessVars, anomalyVars, scorerVars>>

notBatch == <<fetchVars, schemaVars, rangeVars,
              scoreVars, completenessVars, anomalyVars, scorerVars>>

----------------------------------------------------------------------------
(* Optional values: None is the empty tuple, a present value a 1-tuple.    *)
None == <<>>
Some(x) == <<x>>

(* No call at hand.                                                        *)
NoArgs == <<>>

(* No score computed yet, neither for schema_valid True nor for False.     *)
NoScores == [b \in BOOLEAN |-> None]

----------------------------------------------------------------------------
(* src/utils/config.py                                                     *)
MAX_RETRIES == 3
RETRY_BACKOFF_FACTOR == 2

(* Bound on the max_retries a client is constructed with.                  *)
MaxRetriesBound == 3

----------------------------------------------------------------------------
(* Text, as python sees it: a str is a sequence of one-character strings.  *)
Digits == <<"0", "1", "2", "3", "4", "5", "6", "7", "8", "9">>

IsDigit(c) == \E i \in 1..10 : Digits[i] = c

DigitVal(c) == (CHOOSE i \in 1..10 : Digits[i] = c) - 1

RECURSIVE DigitsValue(_)
DigitsValue(s) ==
    IF Len(s) = 0 THEN 0
    ELSE 10 * DigitsValue(SubSeq(s, 1, Len(s) - 1)) + DigitVal(s[Len(s)])

AllDigits(s) == Len(s) > 0 /\ \A i \in 1..Len(s) : IsDigit(s[i])

(* int(str): an optional sign and decimal digits; anything else raises     *)
(* ValueError.                                                             *)
IntParses(s) ==
    \/ AllDigits(s)
    \/ Len(s) > 1 /\ s[1] \in {"-", "+"} /\ AllDigits(Tail(s))

IntOf(s) ==
    IF AllDigits(s) THEN DigitsValue(s)
    ELSE IF s[1] = "-" THEN 0 - DigitsValue(Tail(s))
    ELSE DigitsValue(Tail(s))

----------------------------------------------------------------------------
(* What one request can come back with.                                    *)
Payloads == {"payloadA", "payloadB"}

(* Retry-After header values a server sends with a 429: absent, seconds,   *)
(* an HTTP-date, a decimal.                                                *)
RetryAfterHeaders ==
    { None,
      Some(<<"0">>),
      Some(<<"3", "0">>),
      Some(<<"1", "2", "0">>),
      Some(<<"1", ".", "5">>),
      Some(<<"W", "e", "d", ",", " ", "2", "1", " ", "O", "c", "t">>) }

NoBody == [json |-> FALSE, data |-> "none"]

Bodies == {NoBody} \cup {[json |-> TRUE, data |-> p] : p \in Payloads}

Outcome(kind, status, header, body) ==
    [kind |-> kind, status_code |-> status, retry_after |-> header, body |-> body]

TimeoutOutcome == Outcome("Timeout", 0, None, NoBody)

ConnectionErrorOutcome == Outcome("ConnectionError", 0, None, NoBody)

Outcomes ==
    {TimeoutOutcome, ConnectionErrorOutcome}
    \cup {Outcome("response", 200, None, b) : b \in Bodies}
    \cup {Outcome("response", s, None, NoBody) : s \in {400, 404, 500, 503}}
    \cup {Outcome("response", 429, h, NoBody) : h \in RetryAfterHeaders}

----------------------------------------------------------------------------
(* What _make_request ends with.                                           *)
Result(kind, status, value, retry_after) ==
    [kind |-> kind, status_code |-> status, value |-> value,
     msg_retry_after |-> retry_after]

NoResult == Result("none", None, None, None)

(* range(self.max_retries + 1)                                             *)
MaxAttempts(mr) == mr + 1

RECURSIVE Pow(_, _)
Pow(b, e) == IF e = 0 THEN 1 ELSE b * Pow(b, e - 1)

(* The backoff counted from the attempt's one-based number.                *)
calculate_backoff_OneBased(a) == Pow(RETRY_BACKOFF_FACTOR, a + 1)

calculate_backoff(a) == Pow(RETRY_BACKOFF_FACTOR, a)

(* The client errors taken to start above 400.                             *)
IsClientError_Above400(status) == 400 < status /\ status < 500

(* 400 <= e.response.status_code < 500                                     *)
IsClientError(status) == 400 <= status /\ status < 500

(* response.raise_for_status() raises HTTPError                            *)
RaisesForStatus(status) == 400 <= status /\ status < 600

(* if attempt < self.max_retries                                           *)
SleepsBeforeRetry(a, mr) == a < mr

(* int(response.headers.get("Retry-After", 60)): the number, or None when  *)
(* int() raises ValueError.                                                *)
RetryAfterSeconds(header) ==
    IF header = None THEN Some(60)
    ELSE IF IntParses(header[1]) THEN Some(IntOf(header[1]))
    ELSE None

(* The try block and its except clauses for one outcome: "return",        *)
(* "raise" (with the result) or "retry" (with last_exception).             *)
Handle(o) ==
    IF o.kind \in {"Timeout", "ConnectionError"}
    THEN [step |-> "retry", res |-> NoResult]
    ELSE IF o.status_code = 429
    THEN IF RetryAfterSeconds(o.retry_after) = None
         THEN [step |-> "raise", res |-> Result("ValueError", None, None, None)]
         ELSE [step |-> "raise",
               res |-> Result("RateLimitError", Some(429), None,
                              RetryAfterSeconds(o.retry_after))]
    ELSE IF RaisesForStatus(o.status_code)
    THEN IF IsClientError(o.status_code)
         THEN [step |-> "raise",
               res |-> Result("APIError", Some(o.status_code), None, None)]
         ELSE [step |-> "retry", res |-> NoResult]
    ELSE IF o.body.json
    THEN [step |-> "return", res |-> Result("return", None, Some(o.body.data), None)]
    ELSE [step |-> "raise", res |-> Result("JSONDecodeError", None, None, None)]

(* One iteration of the for loop up to the backoff: the request, the       *)
(* handling of what came back and, after the last iteration, the raise     *)
(* that follows the loop.                                                  *)
Request(o) ==
    /\ pc = "request"
    /\ attempt < MaxAttempts(max_retries)
    /\ calls' = Append(calls, o)
    /\ LET h == Handle(o) IN
       IF h.step = "retry"
       THEN /\ last_exception' = Some(o)
            /\ IF SleepsBeforeRetry(attempt, max_retries)
               THEN /\ pc' = "backoff"
                    /\ UNCHANGED <<attempt, result>>
               ELSE IF attempt + 1 < MaxAttempts(max_retries)
               THEN /\ pc' = "request"
                    /\ attempt' = attempt + 1
                    /\ UNCHANGED result
               ELSE /\ pc' = "done"
                    /\ attempt' = attempt
                    /\ result' = Result("APIError", None, None, None)
       ELSE /\ pc' = "done"
            /\ result' = h.res
            /\ UNCHANGED <<attempt, last_exception>>
    /\ UNCHANGED <<max_retries, sleeps>>
    /\ UNCHANGED notFetch

(* delay = self._calculate_backoff(attempt); time.sleep(delay)             *)
Backoff ==
    /\ pc = "backoff"
    /\ sleeps' = Append(sleeps, calculate_backoff(attempt))
    /\ attempt' = attempt + 1
    /\ pc' = "request"
    /\ UNCHANGED <<max_retries, calls, last_exception, result>>
    /\ UNCHANGED notFetch

----------------------------------------------------------------------------
(* Decoded JSON, as the validators and the clients meet it.  A scalar is   *)
(* absent, null, an int, a float (n in tenths) or a str.                   *)
J(t, n, s) == [t |-> t, n |-> n, s |-> s]

JAbsent == J("absent", 0, <<>>)

JNull == J("null", 0, <<>>)

JInt(n) == J("int", n, <<>>)

JFloat(tenths) == J("float", tenths, <<>>)

JStr(s) == J("str", 0, s)

(* float(str): an optional sign, digits and at most one point; anything    *)
(* else raises ValueError (exponents, inf and nan are not drawn here).     *)
Unsigned(s) == IF Len(s) > 0 /\ s[1] \in {"-", "+"} THEN Tail(s) ELSE s

FloatParses(s) ==
    LET u == Unsigned(s) IN
    /\ \A i \in 1..Len(u) : IsDigit(u[i]) \/ u[i] = "."
    /\ Cardinality({i \in 1..Len(u) : u[i] = "."}) <= 1
    /\ \E i \in 1..Len(u) : IsDigit(u[i])

(* The float a numeric str stands for, in tenths.                          *)
TenthsOf(s) ==
    LET u == Unsigned(s)
        dots == {i \in 1..Len(u) : u[i] = "."}
        dot == IF dots = {} THEN Len(u) + 1 ELSE CHOOSE i \in dots : TRUE
        whole == DigitsValue(SubSeq(u, 1, dot - 1))
        frac == IF dot + 1 <= Len(u) THEN DigitVal(u[dot + 1]) ELSE 0
        mag == 10 * whole + frac
    IN IF Len(s) > 0 /\ s[1] = "-" THEN 0 - mag ELSE mag

(* pydantic, lax mode: an int field takes an int, a float without a        *)
(* fraction and a str of an integer; a str field takes a str only.         *)
IntFieldAccepts(j) ==
    \/ j.t = "int"
    \/ j.t = "float" /\ j.n % 10 = 0
    \/ j.t = "str" /\ IntParses(j.s)

StrFieldAccepts(j) == j.t = "str"

Entry(shape, date, value, quality) ==
    [shape |-> shape, date |-> date, value |-> value, quality |-> quality]

(* ObservationValue: date: int and value: str are required, quality: str   *)
(* defaults; validate_value_is_numeric runs float() on the value.          *)
ObservationValueValid(e) ==
    /\ e.shape = "object"
    /\ IntFieldAccepts(e.date)
    /\ StrFieldAccepts(e.value)
    /\ FloatParses(e.value.s)
    /\ e.quality.t = "absent" \/ StrFieldAccepts(e.quality)

Block(shape, key, name, from, to) ==
    [shape |-> shape, key |-> key, name |-> name, from |-> from, to |-> to]

AbsentBlock == Block("absent", JAbsent, JAbsent, JAbsent, JAbsent)

NullBlock == Block("null", JAbsent, JAbsent, JAbsent, JAbsent)

(* StationMetadata and ParameterMetadata: key: int and name: str required. *)
KeyNameValid(m) ==
    /\ m.shape = "object"
    /\ IntFieldAccepts(m.key)
    /\ StrFieldAccepts(m.name)

(* PeriodMetadata: key: str, from: int and to: int required.               *)
PeriodMetadataValid(m) ==
    /\ m.shape = "object"
    /\ StrFieldAccepts(m.key)
    /\ IntFieldAccepts(m.from)
    /\ IntFieldAccepts(m.to)

(* A field typed  X | None = None.                                         *)
OptionalValid(m, valid) == m.shape \in {"absent", "null"} \/ valid

(* value as a required field, without its default.                         *)
ValueFieldValid_Required(v) ==
    /\ v.shape = "list"
    /\ \A i \in 1..Len(v.items) : ObservationValueValid(v.items[i])

(* value: list[ObservationValue] = Field(default_factory=list)             *)
ValueFieldValid(v) ==
    \/ v.shape = "absent"
    \/ /\ v.shape = "list"
       /\ \A i \in 1..Len(v.items) : ObservationValueValid(v.items[i])

(* MetObsResponse.model_validate(data) and HydroObsResponse, which has the *)
(* same fields: TRUE when it raises nothing.                               *)
ModelValidates(d) ==
    /\ d.kind = "object"
    /\ ValueFieldValid(d.value)
    /\ OptionalValid(d.station, KeyNameValid(d.station))
    /\ OptionalValid(d.parameter, KeyNameValid(d.parameter))
    /\ OptionalValid(d.period, PeriodMetadataValid(d.period))

ValidationResult(valid, severity, message) ==
    [valid |-> valid, severity |-> severity, message |-> message]

validate_observation_response(d, rtype) ==
    IF ModelValidates(d)
    THEN [valid |-> TRUE,
          results |-> <<ValidationResult(TRUE, "ok", "Schema validation passed")>>]
    ELSE [valid |-> FALSE,
          results |-> <<ValidationResult(FALSE, "critical", "Schema validation failed")>>]

----------------------------------------------------------------------------
(* The raw responses drawn.                                                *)
MaxEntries == 2

GoodEntry == Entry("object", JInt(1000), JStr(<<"5", ".", "2">>), JStr(<<"G">>))

EntrySamples ==
    { GoodEntry,
      Entry("object", JInt(2000), JStr(<<"-", "1", "0", ".", "5">>), JAbsent),
      Entry("object", JInt(1000), JAbsent, JStr(<<"G">>)),
      Entry("object", JAbsent, JStr(<<"5", ".", "2">>), JStr(<<"G">>)),
      Entry("object", JNull, JStr(<<"5", ".", "2">>), JStr(<<"G">>)),
      Entry("object", JInt(1000), JStr(<<"i", "n", "v", "a", "l", "i", "d">>), JStr(<<"G">>)),
      Entry("object", JInt(1000), JFloat(52), JStr(<<"G">>)),
      Entry("object", JFloat(15), JStr(<<"4", ".", "8">>), JStr(<<"G">>)),
      Entry("object", JStr(<<"3", "0", "0", "0">>), JStr(<<"4", ".", "5">>), JStr(<<"Y">>)),
      Entry("object", JStr(<<"n", "o", "w">>), JStr(<<"4", ".", "5">>), JStr(<<"G">>)),
      Entry("object", JInt(3000), JStr(<<"7">>), JInt(1)),
      Entry("other", JAbsent, JAbsent, JAbsent) }

SeqsUpTo(S, n) == UNION {[1..k -> S] : k \in 0..n}

ValueField(shape, items) == [shape |-> shape, items |-> items]

ValueFields ==
    {ValueField("absent", <<>>), ValueField("null", <<>>), ValueField("str", <<>>)}
    \cup {ValueField("list", q) : q \in SeqsUpTo(EntrySamples, MaxEntries)}

GoodStation == Block("object", JInt(98210), JStr(<<"A">>), JAbsent, JAbsent)

GoodParameter == Block("object", JInt(1), JStr(<<"T">>), JAbsent, JAbsent)

GoodPeriod == Block("object", JStr(<<"d", "a", "y">>), JAbsent, JInt(1000), JInt(3000))

(* station, parameter and period as they come together.                    *)
MetadataSamples ==
    { <<AbsentBlock, AbsentBlock, AbsentBlock>>,
      <<GoodStation, GoodParameter, GoodPeriod>>,
      <<NullBlock, NullBlock, NullBlock>>,
      <<Block("object", JInt(98210), JAbsent, JAbsent, JAbsent), GoodParameter, GoodPeriod>>,
      <<Block("object", JStr(<<"k">>), JStr(<<"A">>), JAbsent, JAbsent), AbsentBlock, AbsentBlock>>,
      <<Block("str", JAbsent, JAbsent, JAbsent, JAbsent), AbsentBlock, AbsentBlock>>,
      <<GoodStation, Block("object", JAbsent, JStr(<<"T">>), JAbsent, JAbsent), AbsentBlock>>,
      <<GoodStation, GoodParameter,
        Block("object", JStr(<<"d", "a", "y">>), JAbsent, JAbsent, JInt(3000))>>,
      <<AbsentBlock, AbsentBlock,
        Block("object", JInt(7), JAbsent, JInt(1000), JInt(3000))>> }

Raw(kind, value, meta, extra) ==
    [kind |-> kind, value |-> value, station |-> meta[1], parameter |-> meta[2],
     period |-> meta[3], extra |-> extra]

NoData == Raw("none", ValueField("absent", <<>>), <<AbsentBlock, AbsentBlock, AbsentBlock>>, FALSE)

RawResponses ==
    {Raw("object", v, m, x) : v \in ValueFields, m \in MetadataSamples, x \in BOOLEAN}
    \cup {Raw("array", ValueField("absent", <<>>), <<AbsentBlock, AbsentBlock, AbsentBlock>>, FALSE)}

NoValidation == [valid |-> FALSE, results |-> <<>>]

Validate ==
    /\ validation = NoValidation
    /\ validation' = validate_observation_response(data, response_type)
    /\ UNCHANGED <<data, response_type>>
    /\ UNCHANGED notSchema

----------------------------------------------------------------------------
(* src/validation/range_validator.py.  Values and thresholds are in tenths *)
(* of the unit, so 55.0 is 550.                                            *)
RANGE_THRESHOLDS_HumidityWarnAboveMax ==
    [ temperature |-> [min |-> -600, max |-> 550, warn_min |-> -500, warn_max |-> 400],
      wind_speed |-> [min |-> 0, max |-> 800, warn_min |-> 0, warn_max |-> 350],
      precipitation |-> [min |-> 0, max |-> 3000, warn_min |-> 0, warn_max |-> 1000],
      humidity |-> [min |-> 0, max |-> 1000, warn_min |-> 0, warn_max |-> 1050],
      water_level |-> [min |-> -100, max |-> 200, warn_min |-> -50, warn_max |-> 150] ]

RANGE_THRESHOLDS ==
    [ temperature |-> [min |-> -600, max |-> 550, warn_min |-> -500, warn_max |-> 400],
      wind_speed |-> [min |-> 0, max |-> 800, warn_min |-> 0, warn_max |-> 350],
      precipitation |-> [min |-> 0, max |-> 3000, warn_min |-> 0, warn_max |-> 1000],
      humidity |-> [min |-> 0, max |-> 1000, warn_min |-> 0, warn_max |-> 1000],
      water_level |-> [min |-> -100, max |-> 200, warn_min |-> -50, warn_max |-> 150] ]

(* dict.get(key): a 1-tuple with the value, or None.                       *)
DictGet(d, k) == IF k \in DOMAIN d THEN Some(d[k]) ELSE None

(* custom_thresholds or RANGE_THRESHOLDS.get(parameter): None and the      *)
(* empty dict are falsy.                                                   *)
ResolveThresholds(parameter, custom) ==
    IF custom # None /\ DOMAIN custom[1] # {}
    THEN custom
    ELSE DictGet(RANGE_THRESHOLDS, parameter)

(* thresholds.get("min", float("-inf")) and the like: None is the          *)
(* infinite default, which no value is below or above.                     *)
MinVal(th) == DictGet(th, "min")

MaxVal(th) == DictGet(th, "max")

WarnMin(th) == IF "warn_min" \in DOMAIN th THEN Some(th.warn_min) ELSE MinVal(th)

WarnMax(th) == IF "warn_max" \in DOMAIN th THEN Some(th.warn_max) ELSE MaxVal(th)

BelowMin(v, th) == MinVal(th) # None /\ v < MinVal(th)[1]

(* The maximum taken as an open bound.                                     *)
AboveMax_NotStrict(v, th) == MaxVal(th) # None /\ v >= MaxVal(th)[1]

AboveMax(v, th) == MaxVal(th) # None /\ v > MaxVal(th)[1]

BelowWarnMin(v, th) == WarnMin(th) # None /\ v < WarnMin(th)[1]

AboveWarnMax(v, th) == WarnMax(th) # None /\ v > WarnMax(th)[1]

RangeCheckResult(v, parameter, severity, message, violated) ==
    [value |-> v, parameter |-> parameter, severity |-> severity,
     message |-> message, threshold_violated |-> violated]

check_range(v, parameter, custom) ==
    LET thresholds == ResolveThresholds(parameter, custom) IN
    IF thresholds = None \/ DOMAIN thresholds[1] = {}
    THEN RangeCheckResult(v, parameter, "ok", "No thresholds defined", None)
    ELSE LET th == thresholds[1] IN
         IF BelowMin(v, th)
         THEN RangeCheckResult(v, parameter, "critical", "below minimum", Some("min"))
         ELSE IF AboveMax(v, th)
         THEN RangeCheckResult(v, parameter, "critical", "above maximum", Some("max"))
         ELSE IF BelowWarnMin(v, th)
         THEN RangeCheckResult(v, parameter, "warning", "unusually low", Some("warn_min"))
         ELSE IF AboveWarnMax(v, th)
         THEN RangeCheckResult(v, parameter, "warning", "unusually high", Some("warn_max"))
         ELSE RangeCheckResult(v, parameter, "ok", "within normal range", None)

(* The parameters drawn: the registered ones and the dashboard's name for  *)
(* a parameter without thresholds.                                         *)
Parameters == DOMAIN RANGE_THRESHOLDS \cup {"unknown"}

(* The custom thresholds drawn: none, the empty dict, full and partial     *)
(* dicts, and dicts whose warning band lies outside the critical one.      *)
CustomThresholds ==
    { None,
      Some(<<>>),
      Some([min |-> 0, max |-> 100, warn_min |-> 20, warn_max |-> 80]),
      Some([min |-> 0, max |-> 100]),
      Some([max |-> 100, warn_max |-> 80]),
      Some([warn_min |-> 20]),
      Some([min |-> 20, max |-> 80, warn_min |-> 0, warn_max |-> 100]),
      Some([min |-> 80, max |-> 20, warn_min |-> 50, warn_max |-> 50]) }

Bounds(th) == {th[k] : k \in DOMAIN th}

(* The values drawn: every bound in use, and its two neighbours.           *)
RangeValues ==
    LET bs == UNION ({Bounds(RANGE_THRESHOLDS[p]) : p \in DOMAIN RANGE_THRESHOLDS}
                     \cup {Bounds(c[1]) : c \in CustomThresholds \ {None}})
    IN UNION {{b - 1, b, b + 1} : b \in bs}

NoRangeResult == RangeCheckResult(0, "none", "none", "none", None)

CheckRange ==
    /\ range_result = NoRangeResult
    /\ range_result' = check_range(range_value, range_parameter, custom_thresholds)
    /\ UNCHANGED <<range_value, range_parameter, custom_thresholds>>
    /\ UNCHANGED notRange

----------------------------------------------------------------------------
(* src/api/metobs_client.py: get_observations on a decoded response.       *)

(* datetime.fromtimestamp(obs["date"] / 1000) raises KeyError without the  *)
(* key and TypeError on null and on a str.                                 *)
DateConverts(j) == j.t \in {"int", "float"}

(* The timestamp, in tenths of a millisecond.                              *)
TimestampOf(j) == IF j.t = "int" THEN 10 * j.n ELSE j.n

(* float(obs["value"]) raises KeyError without the key, TypeError on null  *)
(* and ValueError on a str that is no number.                              *)
ValueConverts(j) ==
    \/ j.t \in {"int", "float"}
    \/ j.t = "str" /\ FloatParses(j.s)

(* The float, in tenths.                                                   *)
FloatOf(j) ==
    IF j.t = "int" THEN 10 * j.n
    ELSE IF j.t = "float" THEN j.n
    ELSE TenthsOf(j.s)

EntryConverts(e) == e.shape = "object" /\ DateConverts(e.date) /\ ValueConverts(e.value)

Observation(e) ==
    [timestamp |-> TimestampOf(e.date), value |-> FloatOf(e.value),
     quality |-> IF e.quality.t = "absent" THEN JStr(<<"u", "n", "k", "n", "o", "w", "n">>)
                 ELSE e.quality]

(* response.get("station", {}).get("key", station_id): a block that is     *)
(* null or no dict has no get.                                             *)
InfoReads(m) == m.shape \in {"absent", "object"}

InfoKey(m, default) ==
    IF m.shape = "object" /\ m.key.t # "absent" THEN m.key ELSE JInt(default)

(* TRUE when get_observations returns, FALSE when it raises.               *)
ParseSucceeds(d) ==
    /\ d.kind = "object"
    /\ d.value.shape \in {"absent", "list"}
    /\ \A i \in 1..Len(d.value.items) : EntryConverts(d.value.items[i])
    /\ InfoReads(d.station)
    /\ InfoReads(d.parameter)

(* The ObservationSet returned (its names and unit are left out).          *)
get_observations(d, parameter_id, station_id) ==
    [station_id |-> InfoKey(d.station, station_id),
     parameter_id |-> InfoKey(d.parameter, parameter_id),
     observations |-> [i \in 1..Len(d.value.items) |-> Observation(d.value.items[i])]]

----------------------------------------------------------------------------
(* src/dashboard/app.py                                                    *)
PARAM_TEMPERATURE == 1

(* What self.get can raise inside get_observations.                        *)
FetchFailures == {"APIError", "RateLimitError", "JSONDecodeError"}

(* The responses a station's request is answered with.                     *)
NoMeta == <<AbsentBlock, AbsentBlock, AbsentBlock>>

GoodMeta == <<GoodStation, GoodParameter, GoodPeriod>>

BatchResponses ==
    { Raw("object", ValueField("list", <<GoodEntry, Entry("object", JInt(2000), JStr(<<"-", "1", "0", ".", "5">>), JAbsent)>>), GoodMeta, FALSE),
      Raw("object", ValueField("list", <<>>), GoodMeta, FALSE),
      Raw("object", ValueField("absent", <<>>), NoMeta, FALSE),
      Raw("object", ValueField("list", <<Entry("object", JInt(1000), JFloat(52), JStr(<<"G">>))>>),
          GoodMeta, FALSE),
      Raw("object", ValueField("list", <<Entry("object", JInt(1000), JAbsent, JStr(<<"G">>))>>),
          NoMeta, FALSE),
      Raw("object", ValueField("list", <<GoodEntry>>), <<NullBlock, NullBlock, NullBlock>>, FALSE) }

StationOutcomes ==
    {[raised |-> f, response |-> NoData] : f \in FetchFailures}
    \cup {[raised |-> "none", response |-> d] : d \in BatchResponses}

NoObservationSet == None

(* fetch_observations: the ObservationSet, or None after st.error when     *)
(* anything was raised.                                                    *)
fetch_observations(station_id, parameter_id, o) ==
    IF o.raised = "none" /\ ParseSucceeds(o.response)
    THEN Some(get_observations(o.response, parameter_id, station_id))
    ELSE NoObservationSet

(* validate_observations: the counts by severity.                          *)
RangeSummary(values, parameter) ==
    LET sev(i) == check_range(values[i], parameter, None).severity
        n(s) == Cardinality({i \in 1..Len(values) : sev(i) = s})
    IN [ok |-> n("ok"), warning |-> n("warning"), critical |-> n("critical"),
        total |-> Len(values)]

(* schema_valid = True  (analyze_quality)                                  *)
AnalyzeSchemaValid == TRUE

(* schema_validity=100.0 if schema_valid else 0.0  (calculate_quality_score) *)
SchemaValidity(schema_valid) == IF schema_valid THEN 100 ELSE 0

(* analyze_quality: of the quality score the schema validity component is  *)
(* kept, of the analysis the values, the timestamps and the range summary. *)
analyze_quality(obs, parameter_name) ==
    LET values == [i \in 1..Len(obs.observations) |-> obs.observations[i].value]
        timestamps == [i \in 1..Len(obs.observations) |-> obs.observations[i].timestamp]
    IN [quality_score |->
            [components |-> [schema_validity |-> SchemaValidity(AnalyzeSchemaValid)]],
        range_summary |-> RangeSummary(values, parameter_name),
        values |-> values,
        timestamps |-> timestamps]

MaxStations == 3

(* if len(station_names) < 2: st.warning(...); return                      *)
EnoughSelected(n) == n >= 2

(* if len(all_data) < 2: st.warning(...); return                           *)
EnoughFetched(n) == n >= 2

StartComparison ==
    /\ batch_pc = "start"
    /\ IF EnoughSelected(Len(station_ids))
       THEN /\ batch_pc' = "fetching"
            /\ UNCHANGED st_messages
       ELSE /\ batch_pc' = "done"
            /\ st_messages' = Append(st_messages, "warning: select at least 2 stations")
    /\ UNCHANGED <<station_ids, fetched, all_data, table_rows>>
    /\ UNCHANGED notBatch

(* One iteration of the fetch loop: fetch_observations and, when it gave   *)
(* observations, analyze_quality.                                          *)
FetchStation(o) ==
    /\ batch_pc = "fetching"
    /\ Len(fetched) < Len(station_ids)
    /\ LET sid == station_ids[Len(fetched) + 1]
           obs == fetch_observations(sid, PARAM_TEMPERATURE, o)
       IN /\ fetched' = Append(fetched, [outcome |-> o, obs |-> obs])
          /\ st_messages' = IF obs = NoObservationSet
                            THEN Append(st_messages, "error: failed to fetch data")
                            ELSE st_messages
          /\ all_data' = IF obs # NoObservationSet /\ Len(obs[1].observations) > 0
                         THEN Append(all_data,
                                     [station |-> sid,
                                      analysis |-> analyze_quality(obs[1], "temperature")])
                         ELSE all_data
    /\ UNCHANGED <<station_ids, batch_pc, table_rows>>
    /\ UNCHANGED notBatch

(* After the loop: the warning and return, or the comparison table with    *)
(* one row per station of all_data.                                        *)
RenderComparison ==
    /\ batch_pc = "fetching"
    /\ Len(fetched) = Len(station_ids)
    /\ batch_pc' = "done"
    /\ IF EnoughFetched(Len(all_data))
       THEN /\ table_rows' = [i \in 1..Len(all_data) |->
                                [station |-> all_data[i].station,
                                 observations |-> Len(all_data[i].analysis.values),
                                 schema_validity |->
                                     all_data[i].analysis.quality_score.components.schema_validity]]
            /\ UNCHANGED st_messages
       ELSE /\ st_messages' = Append(st_messages, "warning: not enough stations to compare")
            /\ UNCHANGED table_rows
    /\ UNCHANGED <<station_ids, fetched, all_data>>
    /\ UNCHANGED notBatch

----------------------------------------------------------------------------
(* src/validation/range_validator.py: the range validity score.  A score   *)
(* is a fraction num / den, in percent.                                    *)

(* results = [check_range(v, parameter) for v in values]                   *)
validate_observations(values, parameter) ==
    [i \in 1..Len(values) |-> check_range(values[i], parameter, None)]

(* A warning weighted as an ok result.                                     *)
SeverityWeight_WarningAsOk(severity) ==
    CASE severity = "ok" -> 2
      [] severity = "warning" -> 2
      [] severity = "critical" -> 0

(* weights, in halves: OK 1.0, WARNING 0.5, CRITICAL 0.0                   *)
SeverityWeight(severity) ==
    CASE severity = "ok" -> 2
      [] severity = "warning" -> 1
      [] severity = "critical" -> 0

(* total_score = sum(weights[r.severity] for r in results), in halves.     *)
RECURSIVE total_score(_)
total_score(results) ==
    IF results = <<>> THEN 0
    ELSE SeverityWeight(Head(results).severity) + total_score(Tail(results))

calculate_range_validity_score(results) ==
    IF Len(results) = 0 THEN [num |-> 100, den |-> 1]
    ELSE [num |-> total_score(results) * 100, den |-> 2 * Len(results)]

(* The results scored: up to MaxResults temperatures, each 5.0 (in range), *)
(* 45.0 (above the warning maximum) or 60.0 (above the maximum), in tenths. *)
MaxResults == 5

ScoredTemperatures == {50, 450, 600}

CalculateRangeScore ==
    /\ range_score = None
    /\ range_score' = Some(calculate_range_validity_score(score_results))
    /\ UNCHANGED score_results
    /\ UNCHANGED <<fetchVars, schemaVars, rangeVars, batchVars,
                   completenessVars, anomalyVars, scorerVars>>

----------------------------------------------------------------------------
(* src/validation/completeness.py.  A datetime is a number of microseconds, *)
(* the resolution of datetime and timedelta; a timedelta likewise.         *)
MIN_COMPLETENESS_PERCENT == 90

(* sorted(...): insertion sort, ascending.                                 *)
RECURSIVE sorted(_)
sorted(s) ==
    IF s = <<>> THEN <<>>
    ELSE LET rest == sorted(Tail(s))
             below == SelectSeq(rest, LAMBDA x : x < Head(s))
             above == SelectSeq(rest, LAMBDA x : x >= Head(s))
         IN below \o <<Head(s)>> \o above

(* int(a / b) for b > 0: python's int() truncates towards zero.            *)
IntDiv(a, b) == IF a >= 0 THEN a \div b ELSE -((-a) \div b)

(* total_expected without counting the sample at the start of the window.  *)
total_expected_NoPlusOne(time_span, expected_interval) ==
    LET n == IntDiv(time_span, expected_interval) IN IF n > 1 THEN n ELSE 1

(* total_expected = max(1, int(time_span / expected_interval) + 1)         *)
total_expected(time_span, expected_interval) ==
    LET n == IntDiv(time_span, expected_interval) + 1 IN IF n > 1 THEN n ELSE 1

(* A tolerance of half the expected interval.                              *)
gap_threshold_HalfInterval(expected_interval) == expected_interval \div 2

(* gap_threshold = expected_interval * 1.5: a timedelta times a float is   *)
(* rounded to the nearest microsecond, ties to the even one.               *)
gap_threshold(expected_interval) ==
    LET q == (3 * expected_interval) \div 2
    IN IF (3 * expected_interval) % 2 = 0 THEN q
       ELSE IF q % 2 = 0 THEN q ELSE q + 1

Gap(start, end, duration, missing_count) ==
    [start |-> start, end |-> end, duration |-> duration,
     missing_count |-> missing_count]

(* The loop over the consecutive pairs of sorted_ts.                       *)
FindGaps(sorted_ts, expected_interval) ==
    LET delta(i) == sorted_ts[i + 1] - sorted_ts[i]
        pairs == [i \in 1..(Len(sorted_ts) - 1) |->
                     Gap(sorted_ts[i], sorted_ts[i + 1], delta(i),
                         IntDiv(delta(i), expected_interval) - 1)]
    IN SelectSeq(pairs, LAMBDA g : g.duration > gap_threshold(expected_interval))

(* max(gaps, key=lambda g: g.duration) if gaps else None: max returns the  *)
(* first of the maximal ones.                                              *)
LongestGap(gaps) ==
    IF gaps = <<>> THEN None
    ELSE Some(gaps[CHOOSE i \in 1..Len(gaps) :
                 \A j \in 1..Len(gaps) :
                     /\ gaps[j].duration <= gaps[i].duration
                     /\ j < i => gaps[j].duration < gaps[i].duration])

CompletenessResult(expected, present, percent, gaps, longest_gap, passes) ==
    [total_expected |-> expected, total_present |-> present,
     completeness_percent |-> percent, gaps |-> gaps,
     longest_gap |-> longest_gap, passes_threshold |-> passes]

(* completeness_percent is a fraction num / den.                           *)
analyze_completeness(timestamps, expected_interval, start_time, end_time, min_completeness) ==
    IF timestamps = <<>>
    THEN CompletenessResult(0, 0, [num |-> 0, den |-> 1], <<>>, None, FALSE)
    ELSE LET sorted_ts == sorted(timestamps)
             start == IF start_time # None THEN start_time[1] ELSE sorted_ts[1]
             end == IF end_time # None THEN end_time[1] ELSE sorted_ts[Len(sorted_ts)]
             expected == total_expected(end - start, expected_interval)
             present == Len(sorted_ts)
             gaps == FindGaps(sorted_ts, expected_interval)
             completeness ==
                 IF present * 100 > 100 * expected
                 THEN [num |-> 100, den |-> 1]
                 ELSE [num |-> present * 100, den |-> expected]
         IN CompletenessResult(expected, present, completeness, gaps,
                LongestGap(gaps),
                completeness.num >= min_completeness * completeness.den)

(* The calls made: up to MaxTimestamps timestamps among the instants       *)
(* 0..MaxInstant, in any order and with repeats, intervals of 1 to         *)
(* MaxInterval microseconds, and the series of the gap test, hours 0, 1,   *)
(* 2, 6, 7, 8, 9, with an hour drawn as 4 microseconds.                    *)
MaxTimestamps == 3

MaxInstant == 5

MaxInterval == 3

CompletenessCalls ==
    LET Args(ts, i, s, e, m) ==
            [timestamps |-> ts, expected_interval |-> i, start_time |-> s,
             end_time |-> e, min_completeness |-> m]
    IN {Args(ts, i, s, e, m) :
           ts \in SeqsUpTo(0..MaxInstant, MaxTimestamps), i \in 1..MaxInterval,
           s \in {None, Some(1)}, e \in {None, Some(MaxInstant - 1)},
           m \in {50, MIN_COMPLETENESS_PERCENT, 100}}
       \cup {Args(<<0, 4, 8, 24, 28, 32, 36>>, 4, None, None, MIN_COMPLETENESS_PERCENT),
             Args(<<8, 0, 4, 12, 20, 16, 24>>, 4, None, None, 100)}

AnalyzeCompleteness ==
    /\ completeness_args # NoArgs
    /\ completeness_result = None
    /\ completeness_result' =
           Some(analyze_completeness(completeness_args.timestamps,
                    completeness_args.expected_interval,
                    completeness_args.start_time, completeness_args.end_time,
                    completeness_args.min_completeness))
    /\ UNCHANGED completeness_args
    /\ UNCHANGED <<fetchVars, schemaVars, rangeVars, batchVars,
                   scoreVars, anomalyVars, scorerVars>>

----------------------------------------------------------------------------
(* src/validation/anomaly_detector.py.  Values are in tenths, as for the   *)
(* range check; of an Anomaly the timestamp, value, method, severity and   *)
(* deviation are kept (the message is formatted from the same quantities). *)
(* The deviation is the quotient num / den, for the z-score the quotient   *)
(* of the squares (power 2).  Comparisons of quotients are                 *)
(* cross-multiplied.                                                       *)
ZSCORE_THRESHOLD == 3

(* IQR_MULTIPLIER = 1.5                                                    *)
IQR_MULTIPLIER == [num |-> 3, den |-> 2]

RATE_OF_CHANGE_THRESHOLD ==
    [temperature |-> 100, wind_speed |-> 200, humidity |-> 300]

Anomaly(timestamp, value, method, severity, deviation) ==
    [timestamp |-> timestamp, value |-> value, method |-> method,
     severity |-> severity, deviation |-> deviation]

RECURSIVE Sum(_)
Sum(s) == IF s = <<>> THEN 0 ELSE Head(s) + Sum(Tail(s))

(* z reaching the threshold counted as beyond it.                          *)
ZScoreExceeds_NotStrict(sample, v, threshold) ==
    LET n == Len(sample)
        dev(x) == n * x - Sum(sample)
        sumsq == Sum([j \in 1..n |-> dev(sample[j]) * dev(sample[j])])
    IN sumsq > 0 /\ dev(v) * dev(v) * n >= threshold * threshold * sumsq

(* std > 0 and abs((v - mean) / std) > threshold, for the population mean  *)
(* and std of the sample: with dev(x) = n (x - mean), std^2 = sumsq / n^3. *)
ZScoreExceeds(sample, v, threshold) ==
    LET n == Len(sample)
        dev(x) == n * x - Sum(sample)
        sumsq == Sum([j \in 1..n |-> dev(sample[j]) * dev(sample[j])])
    IN /\ sumsq > 0
       /\ threshold < 0 \/ dev(v) * dev(v) * n > threshold * threshold * sumsq

(* _zscore_to_severity                                                     *)
zscore_to_severity(sample, v) ==
    IF ZScoreExceeds(sample, v, 5) THEN "high"
    ELSE IF ZScoreExceeds(sample, v, 4) THEN "medium" ELSE "low"

(* The anomalies appended, in the order of the loop.                       *)
Appended(candidates) ==
    LET kept == SelectSeq(candidates, LAMBDA c : c.flagged)
    IN [k \in 1..Len(kept) |-> kept[k].anomaly]

(* The rolling window taken to end at the point tested, not before it.     *)
detect_zscore_anomalies_WindowIncludesPoint(values, timestamps, threshold, window_size) ==
    LET z(sample, v) ==
            LET n == Len(sample)
                dev(x) == n * x - Sum(sample)
            IN [num |-> dev(v) * dev(v) * n,
                den |-> Sum([j \in 1..n |-> dev(sample[j]) * dev(sample[j])]),
                power |-> 2]
    IN
    IF Len(values) < 3 THEN <<>>
    ELSE IF window_size # None /\ window_size[1] # 0 /\ window_size[1] < Len(values)
    THEN LET w == window_size[1]
             window(i) == SubSeq(values, i - w + 1, i)
         IN Appended([k \in 1..(Len(values) - w) |->
                LET i == k + w
                IN [flagged |-> ZScoreExceeds(window(i), values[i], threshold),
                    anomaly |-> Anomaly(timestamps[i], values[i], "zscore",
                                    zscore_to_severity(window(i), values[i]),
                                    z(window(i), values[i]))]])
    ELSE Appended([i \in 1..Len(values) |->
                [flagged |-> ZScoreExceeds(values, values[i], threshold),
                 anomaly |-> Anomaly(timestamps[i], values[i], "zscore",
                                 zscore_to_severity(values, values[i]),
                                 z(values, values[i]))]])

(* window_size is None or a Some(w) with w >= 0.                           *)
detect_zscore_anomalies(values, timestamps, threshold, window_size) ==
    LET z(sample, v) ==
            LET n == Len(sample)
                dev(x) == n * x - Sum(sample)
            IN [num |-> dev(v) * dev(v) * n,
                den |-> Sum([j \in 1..n |-> dev(sample[j]) * dev(sample[j])]),
                power |-> 2]
    IN
    IF Len(values) < 3 THEN <<>>
    ELSE IF window_size # None /\ window_size[1] # 0 /\ window_size[1] < Len(values)
    THEN LET w == window_size[1]
             window(i) == SubSeq(values, i - w, i - 1)
         IN Appended([k \in 1..(Len(values) - w) |->
                LET i == k + w
                IN [flagged |-> ZScoreExceeds(window(i), values[i], threshold),
                    anomaly |-> Anomaly(timestamps[i], values[i], "zscore",
                                    zscore_to_severity(window(i), values[i]),
                                    z(window(i), values[i]))]])
    ELSE Appended([i \in 1..Len(values) |->
                [flagged |-> ZScoreExceeds(values, values[i], threshold),
                 anomaly |-> Anomaly(timestamps[i], values[i], "zscore",
                                 zscore_to_severity(values, values[i]),
                                 z(values, values[i]))]])

(* 4 x np.percentile(arr, 25 q), q = 1 or 3: linear interpolation between  *)
(* the order statistics around position (n - 1) q / 4.                     *)
Percentile4(arr, q) ==
    LET a == sorted(arr)
        k == ((Len(a) - 1) * q) \div 4
        r == ((Len(a) - 1) * q) % 4
    IN IF r = 0 THEN 4 * a[k + 1]
       ELSE 4 * a[k + 1] + r * (a[k + 2] - a[k + 1])

(* A deviation reaching a severity threshold counted as beyond it.         *)
iqr_deviation_to_severity_NotStrict(num, iqr4) ==
    IF iqr4 > 0 /\ num >= 3 * iqr4 THEN "high"
    ELSE IF iqr4 > 0 /\ num >= 2 * iqr4 THEN "medium" ELSE "low"

(* _iqr_deviation_to_severity(deviation), deviation = num / iqr4.          *)
iqr_deviation_to_severity(num, iqr4) ==
    IF iqr4 > 0 /\ num > 3 * iqr4 THEN "high"
    ELSE IF iqr4 > 0 /\ num > 2 * iqr4 THEN "medium" ELSE "low"

detect_iqr_anomalies(values, timestamps, multiplier) ==
    IF Len(values) < 4 THEN <<>>
    ELSE LET q1 == Percentile4(values, 1)
             q3 == Percentile4(values, 3)
             iqr == q3 - q1
             lower_bound == multiplier.den * q1 - multiplier.num * iqr
             upper_bound == multiplier.den * q3 + multiplier.num * iqr
             below(val) == 4 * multiplier.den * val < lower_bound
             above(val) == 4 * multiplier.den * val > upper_bound
             deviation(val) ==
                 IF iqr > 0
                 THEN [num |-> IF below(val) THEN q1 - 4 * val ELSE 4 * val - q3,
                       den |-> iqr, power |-> 1]
                 ELSE [num |-> 0, den |-> 1, power |-> 1]
         IN Appended([i \in 1..Len(values) |->
                [flagged |-> below(values[i]) \/ above(values[i]),
                 anomaly |-> Anomaly(timestamps[i], values[i], "iqr",
                     iqr_deviation_to_severity(deviation(values[i]).num,
                                               deviation(values[i]).den),
                     deviation(values[i]))]])

(* _rate_change_to_severity                                                *)
rate_change_to_severity(change, threshold) ==
    IF change > 3 * threshold THEN "high"
    ELSE IF change > 2 * threshold THEN "medium" ELSE "low"

(* threshold = custom_threshold or RATE_OF_CHANGE_THRESHOLD.get(parameter, *)
(* float("inf")): nothing exceeds the infinite one.                        *)
detect_rate_of_change_anomalies(values, timestamps, parameter, custom_threshold) ==
    LET threshold ==
            IF custom_threshold # None /\ custom_threshold[1] # 0 THEN custom_threshold
            ELSE IF parameter \in DOMAIN RATE_OF_CHANGE_THRESHOLD
                 THEN Some(RATE_OF_CHANGE_THRESHOLD[parameter]) ELSE None
        change(i) == IF values[i] >= values[i - 1] THEN values[i] - values[i - 1]
                     ELSE values[i - 1] - values[i]
    IN IF Len(values) < 2 \/ threshold = None THEN <<>>
       ELSE Appended([k \in 1..(Len(values) - 1) |->
                LET i == k + 1
                IN [flagged |-> change(i) > threshold[1],
                    anomaly |-> Anomaly(timestamps[i], values[i], "rate_of_change",
                                    rate_change_to_severity(change(i), threshold[1]),
                                    [num |-> change(i), den |-> threshold[1],
                                     power |-> 1])]])

(* list(AnomalyMethod)                                                     *)
AnomalyMethods == <<"zscore", "iqr", "rate_of_change">>

(* The anomalies left in the order they were collected.                    *)
sort_by_timestamp_Unsorted(anomalies) == anomalies

(* A sort that puts an anomaly behind the later ones of its timestamp.     *)
RECURSIVE sort_by_timestamp_Unstable(_)
sort_by_timestamp_Unstable(anomalies) ==
    IF anomalies = <<>> THEN <<>>
    ELSE LET h == Head(anomalies)
             rest == sort_by_timestamp_Unstable(Tail(anomalies))
         IN SelectSeq(rest, LAMBDA a : a.timestamp <= h.timestamp) \o <<h>>
            \o SelectSeq(rest, LAMBDA a : a.timestamp > h.timestamp)

(* all_anomalies.sort(key=lambda a: a.timestamp): list.sort is stable.     *)
RECURSIVE sort_by_timestamp(_)
sort_by_timestamp(anomalies) ==
    IF anomalies = <<>> THEN <<>>
    ELSE LET h == Head(anomalies)
             rest == sort_by_timestamp(Tail(anomalies))
         IN SelectSeq(rest, LAMBDA a : a.timestamp < h.timestamp) \o <<h>>
            \o SelectSeq(rest, LAMBDA a : a.timestamp >= h.timestamp)

(* methods is None or a Some(list of methods).                             *)
detect_all_anomalies(values, timestamps, parameter, methods) ==
    LET ms == IF methods = None THEN AnomalyMethods ELSE methods[1]
        has(m) == \E i \in 1..Len(ms) : ms[i] = m
        all_anomalies ==
            (IF has("zscore")
             THEN detect_zscore_anomalies(values, timestamps, ZSCORE_THRESHOLD, None)
             ELSE <<>>)
            \o (IF has("iqr")
                THEN detect_iqr_anomalies(values, timestamps, IQR_MULTIPLIER)
                ELSE <<>>)
            \o (IF has("rate_of_change")
                THEN detect_rate_of_change_anomalies(values, timestamps, parameter, None)
                ELSE <<>>)
    IN sort_by_timestamp(all_anomalies)

(* calculate_anomaly_rate, the percentage as the quotient num / den.       *)
calculate_anomaly_rate(anomalies, total_observations) ==
    IF total_observations = 0 THEN [num |-> 0, den |-> 1]
    ELSE [num |-> Len(anomalies) * 100, den |-> total_observations]

(* The calls made.  The series: up to MaxValues values, each 0.0, 1.0 or   *)
(* 20.0, the ten values of the z-score test, eleven equal values followed  *)
(* by a jump, and five values swinging by 15 degrees; their timestamps, as *)
(* many as the values, ascending, descending, or shared by two neighbours; *)
(* the methods: no list, or a list of distinct methods in any order; the   *)
(* parameter temperature, or an unknown one under the default methods; the *)
(* IQR multipliers 1, 1.5 and 3; the rate thresholds none, 0.0 and 5.0.    *)
MaxValues == 4

AnomalyCalls(call) ==
    LET SeriesValues ==
            SeqsUpTo({0, 10, 200}, MaxValues)
            \cup {<<50, 51, 50, 52, 50, 51, 50, 51, 50, 500>>,
                  <<0, 0, 0, 0, 0, 0, 0, 0, 0, 0, 0, 200>>,
                  <<150, 0, 150, 300, 150>>}
        SeriesTimestamps(n) ==
            {[i \in 1..n |-> i], [i \in 1..n |-> n + 1 - i],
             [i \in 1..n |-> (i + 1) \div 2]}
        MethodLists ==
            {ms \in SeqsUpTo({"zscore", "iqr", "rate_of_change"}, 3) :
                \A i, j \in 1..Len(ms) : i # j => ms[i] # ms[j]}
        Args(vs, ts, p, ms, t, w, m, c) ==
            [call |-> call, values |-> vs, timestamps |-> ts, parameter |-> p,
             methods |-> ms, threshold |-> t, window_size |-> w,
             multiplier |-> m, custom_threshold |-> c]
    IN UNION {
        IF call = "detect_all_anomalies"
        THEN {Args(vs, ts, "temperature", ms, ZSCORE_THRESHOLD, None,
                   IQR_MULTIPLIER, None) :
                 ts \in SeriesTimestamps(Len(vs)),
                 ms \in {None} \cup {Some(l) : l \in MethodLists}}
             \cup {Args(vs, ts, "unknown", None, ZSCORE_THRESHOLD, None,
                        IQR_MULTIPLIER, None) :
                      ts \in SeriesTimestamps(Len(vs))}
        ELSE IF call = "detect_zscore_anomalies"
        THEN {Args(vs, ts, "temperature", None, t, w, IQR_MULTIPLIER, None) :
                 ts \in SeriesTimestamps(Len(vs)), t \in 1..ZSCORE_THRESHOLD,
                 w \in {None, Some(0), Some(1), Some(2), Some(Len(vs))}}
        ELSE IF call = "detect_iqr_anomalies"
        THEN {Args(vs, ts, "temperature", None, ZSCORE_THRESHOLD, None, m, None) :
                 ts \in SeriesTimestamps(Len(vs)),
                 m \in {IQR_MULTIPLIER, [num |-> 1, den |-> 1], [num |-> 3, den |-> 1]}}
        ELSE {Args(vs, ts, p, None, ZSCORE_THRESHOLD, None, IQR_MULTIPLIER, c) :
                 ts \in SeriesTimestamps(Len(vs)), p \in {"temperature", "unknown"},
                 c \in {None, Some(0), Some(50)}}
        : vs \in SeriesValues}

DetectAll ==
    /\ anomaly_args # NoArgs
    /\ anomaly_args.call = "detect_all_anomalies"
    /\ anomaly_result = None
    /\ anomaly_result' =
           Some(detect_all_anomalies(anomaly_args.values, anomaly_args.timestamps,
                    anomaly_args.parameter, anomaly_args.methods))
    /\ UNCHANGED <<anomaly_args, anomaly_rate>>
    /\ UNCHANGED <<fetchVars, schemaVars, rangeVars, batchVars,
                   scoreVars, completenessVars, scorerVars>>

DetectZscore ==
    /\ anomaly_args # NoArgs
    /\ anomaly_args.call = "detect_zscore_anomalies"
    /\ anomaly_result = None
    /\ anomaly_result' =
           Some(detect_zscore_anomalies(anomaly_args.values, anomaly_args.timestamps,
                    anomaly_args.threshold, anomaly_args.window_size))
    /\ UNCHANGED <<anomaly_args, anomaly_rate>>
    /\ UNCHANGED <<fetchVars, schemaVars, rangeVars, batchVars,
                   scoreVars, completenessVars, scorerVars>>

DetectIqr ==
    /\ anomaly_args # NoArgs
    /\ anomaly_args.call = "detect_iqr_anomalies"
    /\ anomaly_result = None
    /\ anomaly_result' =
           Some(detect_iqr_anomalies(anomaly_args.values, anomaly_args.timestamps,
                    anomaly_args.multiplier))
    /\ UNCHANGED <<anomaly_args, anomaly_rate>>
    /\ UNCHANGED <<fetchVars, schemaVars, rangeVars, batchVars,
                   scoreVars, completenessVars, scorerVars>>

DetectRateOfChange ==
    /\ anomaly_args # NoArgs
    /\ anomaly_args.call = "detect_rate_of_change_anomalies"
    /\ anomaly_result = None
    /\ anomaly_result' =
           Some(detect_rate_of_change_anomalies(anomaly_args.values,
                    anomaly_args.timestamps, anomaly_args.parameter,
                    anomaly_args.custom_threshold))
    /\ UNCHANGED <<anomaly_args, anomaly_rate>>
    /\ UNCHANGED <<fetchVars, schemaVars, rangeVars, batchVars,
                   scoreVars, completenessVars, scorerVars>>

(* The rate of the anomalies detect_all_anomalies found among the values   *)
(* it was given.                                                           *)
CalculateAnomalyRate ==
    /\ anomaly_args # NoArgs
    /\ anomaly_args.call = "detect_all_anomalies"
    /\ anomaly_result # None
    /\ anomaly_rate = None
    /\ anomaly_rate' =
           Some(calculate_anomaly_rate(anomaly_result[1], Len(anomaly_args.values)))
    /\ UNCHANGED <<anomaly_args, anomaly_result>>
    /\ UNCHANGED <<fetchVars, schemaVars, rangeVars, batchVars,
                   scoreVars, completenessVars, scorerVars>>

----------------------------------------------------------------------------
(* src/quality/scorer.py.  Percentages are in tenths, weights in           *)
(* hundredths, so a weighted sum is in thousandths of a point.             *)
(* Equal shares for the four components.                                   *)
QUALITY_WEIGHTS_EqualShares ==
    [schema_validity |-> 25, completeness |-> 25, range_validity |-> 25,
     anomaly_rate |-> 25]

QUALITY_WEIGHTS ==
    [schema_validity |-> 20, completeness |-> 30, range_validity |-> 25,
     anomaly_rate |-> 25]

(* _score_to_grade with the thresholds exclusive.                          *)
score_to_grade_ExclusiveBounds(score) ==
    IF score > 90000 THEN "A"
    ELSE IF score > 80000 THEN "B"
    ELSE IF score > 70000 THEN "C"
    ELSE IF score > 60000 THEN "D" ELSE "F"

(* _score_to_grade, of a score in thousandths.                             *)
score_to_grade(score) ==
    IF score >= 90000 THEN "A"
    ELSE IF score >= 80000 THEN "B"
    ELSE IF score >= 70000 THEN "C"
    ELSE IF score >= 60000 THEN "D" ELSE "F"

(* _generate_recommendation with a component at its bar reported too.      *)
generate_recommendation_InclusiveBars(components) ==
    LET issues ==
            (IF components.schema_validity <= 1000 THEN <<"schema">> ELSE <<>>)
            \o (IF components.completeness <= 900 THEN <<"completeness">> ELSE <<>>)
            \o (IF components.range_validity <= 900 THEN <<"range">> ELSE <<>>)
            \o (IF components.anomaly_score <= 900 THEN <<"anomaly">> ELSE <<>>)
    IN IF issues = <<>> THEN <<"no action required">> ELSE issues

(* _generate_recommendation: the messages that "; " joins, one per issue   *)
(* and named by its component, or the single message that no action is     *)
(* required.                                                               *)
generate_recommendation(components) ==
    LET issues ==
            (IF components.schema_validity < 1000 THEN <<"schema">> ELSE <<>>)
            \o (IF components.completeness < 900 THEN <<"completeness">> ELSE <<>>)
            \o (IF components.range_validity < 900 THEN <<"range">> ELSE <<>>)
            \o (IF components.anomaly_score < 900 THEN <<"anomaly">> ELSE <<>>)
    IN IF issues = <<>> THEN <<"no action required">> ELSE issues

(* round(overall, 1), in tenths: the tenth nearest to the float.  The      *)
(* float is the binary number nearest to the sum, so where the sum lies    *)
(* exactly between two tenths the float lies on either side of it, and     *)
(* round gives either tenth (round(0.35, 1) is 0.3, round(20.35, 1) 20.4). *)
round_1(thousandths) ==
    IF thousandths % 100 < 50 THEN {thousandths \div 100}
    ELSE IF thousandths % 100 > 50 THEN {thousandths \div 100 + 1}
    ELSE {thousandths \div 100, thousandths \div 100 + 1}

(* calculate_quality_score without the clamping of its inputs.             *)
calculate_quality_score_Unclamped(schema_valid, completeness_percent, range_validity_percent, anomaly_rate_percent, weights) ==
    LET w == IF weights = None \/ weights[1] = <<>> THEN QUALITY_WEIGHTS
             ELSE weights[1]
        components ==
            [schema_validity |-> 10 * SchemaValidity(schema_valid),
             completeness |-> completeness_percent,
             range_validity |-> range_validity_percent,
             anomaly_score |-> 1000 - anomaly_rate_percent]
        overall == components.schema_validity * w.schema_validity
                   + components.completeness * w.completeness
                   + components.range_validity * w.range_validity
                   + components.anomaly_score * w.anomaly_rate
    IN {[overall |-> rounded, components |-> components,
         grade |-> score_to_grade(overall),
         recommendation |-> generate_recommendation(components)] :
            rounded \in round_1(overall)}

(* The QualityScores calculate_quality_score can return; weights is None   *)
(* or a Some(dict), the dict with all four keys or empty.                  *)
calculate_quality_score(schema_valid, completeness_percent, range_validity_percent, anomaly_rate_percent, weights) ==
    LET w == IF weights = None \/ weights[1] = <<>> THEN QUALITY_WEIGHTS
             ELSE weights[1]
        clamp(x) == IF x < 0 THEN 0 ELSE IF x > 1000 THEN 1000 ELSE x
        components ==
            [schema_validity |-> 10 * SchemaValidity(schema_valid),
             completeness |-> clamp(completeness_percent),
             range_validity |-> clamp(range_validity_percent),
             anomaly_score |-> clamp(1000 - anomaly_rate_percent)]
        overall == components.schema_validity * w.schema_validity
                   + components.completeness * w.completeness
                   + components.range_validity * w.range_validity
                   + components.anomaly_score * w.anomaly_rate
    IN {[overall |-> rounded, components |-> components,
         grade |-> score_to_grade(overall),
         recommendation |-> generate_recommendation(components)] :
            rounded \in round_1(overall)}

(* The calls made: each percentage -5.0, 0.0, 0.5, 1.4, 40.1, 50.0, 90.0,  *)
(* 100.0 or 120.0; no weights, an empty dict, equal weights, the weights   *)
(* of the custom weights test, or weights that sum to 2.                   *)
QualityCalls ==
    LET Percents == {-50, 0, 5, 14, 401, 500, 900, 1000, 1200}
        equal(x) == [schema_validity |-> x, completeness |-> x,
                     range_validity |-> x, anomaly_rate |-> x]
        custom == [schema_validity |-> 50, completeness |-> 50,
                   range_validity |-> 0, anomaly_rate |-> 0]
    IN {[completeness_percent |-> c, range_validity_percent |-> r,
         anomaly_rate_percent |-> a, weights |-> w] :
           c \in Percents, r \in Percents, a \in Percents,
           w \in {None, Some(<<>>), Some(equal(25)), Some(custom), Some(equal(50))}}

(* aggregate_station_scores, the QualityScores it can return.  The means   *)
(* of the components are fractions num / den; the mean overall is rounded  *)
(* as by round_1; the recommendation is the message chosen with the        *)
(* numbers it names.                                                       *)
aggregate_station_scores(scores) ==
    IF scores = <<>>
    THEN {[overall |-> 0,
           components |-> [schema_validity |-> [num |-> 0, den |-> 1],
                           completeness |-> [num |-> 0, den |-> 1],
                           range_validity |-> [num |-> 0, den |-> 1],
                           anomaly_score |-> [num |-> 0, den |-> 1]],
           grade |-> "F",
           recommendation |-> [message |-> "no data", poor |-> 0, total |-> 0]]}
    ELSE LET n == Len(scores)
             avg(component) ==
                 [num |-> Sum([i \in 1..n |-> scores[i].components[component]]),
                  den |-> n]
             sum == Sum([i \in 1..n |-> scores[i].overall])
             overall == (sum * 100) \div n
             grade_counts(g) == Cardinality({i \in 1..n : scores[i].grade = g})
             total == grade_counts("A") + grade_counts("B") + grade_counts("C")
                      + grade_counts("D") + grade_counts("F")
             poor_stations == grade_counts("D") + grade_counts("F")
             generate_system_recommendation ==
                 IF overall >= 90000
                 THEN [message |-> "excellent", poor |-> 0, total |-> total]
                 ELSE IF poor_stations > 0
                 THEN [message |-> "degraded", poor |-> poor_stations, total |-> total]
                 ELSE IF overall >= 70000
                 THEN [message |-> "acceptable", poor |-> 0, total |-> 0]
                 ELSE [message |-> "review", poor |-> 0, total |-> 0]
             rounded ==
                 IF 2 * (sum % n) < n THEN {sum \div n}
                 ELSE IF 2 * (sum % n) > n THEN {sum \div n + 1}
                 ELSE {sum \div n, sum \div n + 1}
         IN {[overall |-> r,
              components |-> [schema_validity |-> avg("schema_validity"),
                              completeness |-> avg("completeness"),
                              range_validity |-> avg("range_validity"),
                              anomaly_score |-> avg("anomaly_score")],
              grade |-> score_to_grade(overall),
              recommendation |-> generate_system_recommendation] : r \in rounded}

(* The lists aggregated hold up to MaxScores scores.                       *)
MaxScores == 4

CalculateQualityScore(schema_valid) ==
    /\ quality_args # NoArgs
    /\ quality_scores[schema_valid] = None
    /\ \E s \in calculate_quality_score(schema_valid,
                    quality_args.completeness_percent,
                    quality_args.range_validity_percent,
                    quality_args.anomaly_rate_percent, quality_args.weights) :
           quality_scores' = [quality_scores EXCEPT ![schema_valid] = Some(s)]
    /\ UNCHANGED <<quality_args, aggregate_args, aggregate_result>>
    /\ UNCHANGED <<fetchVars, schemaVars, rangeVars, batchVars,
                   scoreVars, completenessVars, anomalyVars>>

AggregateStationScores ==
    /\ aggregate_args # NoArgs
    /\ aggregate_result = None
    /\ \E s \in aggregate_station_scores(aggregate_args.scores) :
           aggregate_result' = Some(s)
    /\ UNCHANGED <<quality_args, quality_scores, aggregate_args>>
    /\ UNCHANGED <<fetchVars, schemaVars, rangeVars, batchVars,
                   scoreVars, completenessVars, anomalyVars>>

----------------------------------------------------------------------------
(* Specifications, one per component; the other components stay idle.      *)
InitFetch ==
    /\ max_retries \in 0..MaxRetriesBound
    /\ pc = "request" /\ attempt = 0 /\ calls = <<>> /\ sleeps = <<>>
    /\ last_exception = None /\ result = NoResult
    /\ data = NoData /\ response_type = "metobs" /\ validation = NoValidation
    /\ range_value = 0 /\ range_parameter = "none" /\ custom_thresholds = None
    /\ range_result = NoRangeResult
    /\ station_ids = <<>> /\ batch_pc = "idle" /\ fetched = <<>> /\ all_data = <<>>
    /\ st_messages = <<>> /\ table_rows = <<>>
    /\ score_results = <<>> /\ range_score = None
    /\ completeness_args = NoArgs /\ completeness_result = None
    /\ anomaly_args = NoArgs /\ anomaly_result = None /\ anomaly_rate = None
    /\ quality_args = NoArgs /\ quality_scores = NoScores
    /\ aggregate_args = NoArgs /\ aggregate_result = None

NextFetch ==
    \/ \E o \in Outcomes : Request(o)
    \/ Backoff

SpecFetch == InitFetch /\ [][NextFetch]_vars

(* The loop is synchronous: a request ends (it has a timeout) and a sleep  *)
(* ends, so a step that can be taken is taken.                             *)
FairFetch == SpecFetch /\ WF_vars(NextFetch)

InitSchema ==
    /\ data \in RawResponses
    /\ response_type \in {"metobs", "hydroobs"}
    /\ validation = NoValidation
    /\ max_retries = MAX_RETRIES
    /\ pc = "idle" /\ attempt = 0 /\ calls = <<>> /\ sleeps = <<>>
    /\ last_exception = None /\ result = NoResult
    /\ range_value = 0 /\ range_parameter = "none" /\ custom_thresholds = None
    /\ range_result = NoRangeResult
    /\ station_ids = <<>> /\ batch_pc = "idle" /\ fetched = <<>> /\ all_data = <<>>
    /\ st_messages = <<>> /\ table_rows = <<>>
    /\ score_results = <<>> /\ range_score = None
    /\ completeness_args = NoArgs /\ completeness_result = None
    /\ anomaly_args = NoArgs /\ anomaly_result = None /\ anomaly_rate = None
    /\ quality_args = NoArgs /\ quality_scores = NoScores
    /\ aggregate_args = NoArgs /\ aggregate_result = None

NextSchema == Validate

SpecSchema == InitSchema /\ [][NextSchema]_vars

InitRange ==
    /\ range_value \in RangeValues
    /\ range_parameter \in Parameters
    /\ custom_thresholds \in CustomThresholds
    /\ range_result = NoRangeResult
    /\ max_retries = MAX_RETRIES
    /\ pc = "idle" /\ attempt = 0 /\ calls = <<>> /\ sleeps = <<>>
    /\ last_exception = None /\ result = NoResult
    /\ data = NoData /\ response_type = "metobs" /\ validation = NoValidation
    /\ station_ids = <<>> /\ batch_pc = "idle" /\ fetched = <<>> /\ all_data = <<>>
    /\ st_messages = <<>> /\ table_rows = <<>>
    /\ score_results = <<>> /\ range_score = None
    /\ completeness_args = NoArgs /\ completeness_result = None
    /\ anomaly_args = NoArgs /\ anomaly_result = None /\ anomaly_rate = None
    /\ quality_args = NoArgs /\ quality_scores = NoScores
    /\ aggregate_args = NoArgs /\ aggregate_result = None

NextRange == CheckRange

SpecRange == InitRange /\ [][NextRange]_vars

(* The stations selected in the sidebar: distinct ones, here 1, 2, ...     *)
InitBatch ==
    /\ \E n \in 0..MaxStations : station_ids = [i \in 1..n |-> i]
    /\ batch_pc = "start"
    /\ fetched = <<>> /\ all_data = <<>> /\ st_messages = <<>> /\ table_rows = <<>>
    /\ max_retries = MAX_RETRIES
    /\ pc = "idle" /\ attempt = 0 /\ calls = <<>> /\ sleeps = <<>>
    /\ last_exception = None /\ result = NoResult
    /\ data = NoData /\ response_type = "metobs" /\ validation = NoValidation
    /\ range_value = 0 /\ range_parameter = "none" /\ custom_thresholds = None
    /\ range_result = NoRangeResult
    /\ score_results = <<>> /\ range_score = None
    /\ completeness_args = NoArgs /\ completeness_result = None
    /\ anomaly_args = NoArgs /\ anomaly_result = None /\ anomaly_rate = None
    /\ quality_args = NoArgs /\ quality_scores = NoScores
    /\ aggregate_args = NoArgs /\ aggregate_result = None

NextBatch ==
    \/ StartComparison
    \/ \E o \in StationOutcomes : FetchStation(o)
    \/ RenderComparison

SpecBatch == InitBatch /\ [][NextBatch]_vars

InitScore ==
    /\ score_results \in {validate_observations(vs, "temperature") :
                             vs \in SeqsUpTo(ScoredTemperatures, MaxResults)}
    /\ range_score = None
    /\ max_retries = MAX_RETRIES
    /\ pc = "idle" /\ attempt = 0 /\ calls = <<>> /\ sleeps = <<>>
    /\ last_exception = None /\ result = NoResult
    /\ data = NoData /\ response_type = "metobs" /\ validation = NoValidation
    /\ range_value = 0 /\ range_parameter = "none" /\ custom_thresholds = None
    /\ range_result = NoRangeResult
    /\ station_ids = <<>> /\ batch_pc = "idle" /\ fetched = <<>> /\ all_data = <<>>
    /\ st_messages = <<>> /\ table_rows = <<>>
    /\ completeness_args = NoArgs /\ completeness_result = None
    /\ anomaly_args = NoArgs /\ anomaly_result = None /\ anomaly_rate = None
    /\ quality_args = NoArgs /\ quality_scores = NoScores
    /\ aggregate_args = NoArgs /\ aggregate_result = None

NextScore == CalculateRangeScore

SpecScore == InitScore /\ [][NextScore]_vars

InitCompleteness ==
    /\ completeness_args \in CompletenessCalls
    /\ completeness_result = None
    /\ max_retries = MAX_RETRIES
    /\ pc = "idle" /\ attempt = 0 /\ calls = <<>> /\ sleeps = <<>>
    /\ last_exception = None /\ result = NoResult
    /\ data = NoData /\ response_type = "metobs" /\ validation = NoValidation
    /\ range_value = 0 /\ range_parameter = "none" /\ custom_thresholds = None
    /\ range_result = NoRangeResult
    /\ station_ids = <<>> /\ batch_pc = "idle" /\ fetched = <<>> /\ all_data = <<>>
    /\ st_messages = <<>> /\ table_rows = <<>>
    /\ score_results = <<>> /\ range_score = None
    /\ anomaly_args = NoArgs /\ anomaly_result = None /\ anomaly_rate = None
    /\ quality_args = NoArgs /\ quality_scores = NoScores
    /\ aggregate_args = NoArgs /\ aggregate_result = None

NextCompleteness == AnalyzeCompleteness

SpecCompleteness == InitCompleteness /\ [][NextCompleteness]_vars

InitAnomaly ==
    /\ \E call \in {"detect_all_anomalies", "detect_zscore_anomalies",
                     "detect_iqr_anomalies", "detect_rate_of_change_anomalies"} :
           anomaly_args \in AnomalyCalls(call)
    /\ anomaly_result = None /\ anomaly_rate = None
    /\ max_retries = MAX_RETRIES
    /\ pc = "idle" /\ attempt = 0 /\ calls = <<>> /\ sleeps = <<>>
    /\ last_exception = None /\ result = NoResult
    /\ data = NoData /\ response_type = "metobs" /\ validation = NoValidation
    /\ range_value = 0 /\ range_parameter = "none" /\ custom_thresholds = None
    /\ range_result = NoRangeResult
    /\ station_ids = <<>> /\ batch_pc = "idle" /\ fetched = <<>> /\ all_data = <<>>
    /\ st_messages = <<>> /\ table_rows = <<>>
    /\ score_results = <<>> /\ range_score = None
    /\ completeness_args = NoArgs /\ completeness_result = None
    /\ quality_args = NoArgs /\ quality_scores = NoScores
    /\ aggregate_args = NoArgs /\ aggregate_result = None

NextAnomaly ==
    \/ DetectAll
    \/ DetectZscore
    \/ DetectIqr
    \/ DetectRateOfChange
    \/ CalculateAnomalyRate

SpecAnomaly == InitAnomaly /\ [][NextAnomaly]_vars

(* Either the scorer is called, or the aggregator on scores the scorer    *)
(* returned: for perfect data with and without a valid schema, for data    *)
(* graded D and F, and for anomaly rates of 0.4, 0.8 and 40.1 percent.     *)
InitScorer ==
    /\ \/ /\ quality_args \in QualityCalls
          /\ aggregate_args = NoArgs
       \/ /\ quality_args = NoArgs
          /\ aggregate_args \in
                 {[scores |-> l] : l \in SeqsUpTo(
                     calculate_quality_score(TRUE, 1000, 1000, 0, None)
                     \cup calculate_quality_score(FALSE, 1000, 1000, 0, None)
                     \cup calculate_quality_score(TRUE, 0, 1000, 400, None)
                     \cup calculate_quality_score(FALSE, 0, 0, 1000, None)
                     \cup calculate_quality_score(TRUE, 1000, 1000, 4, None)
                     \cup calculate_quality_score(TRUE, 1000, 1000, 8, None)
                     \cup calculate_quality_score(TRUE, 1000, 1000, 401, None),
                     MaxScores)}
    /\ quality_scores = NoScores
    /\ aggregate_result = None
    /\ max_retries = MAX_RETRIES
    /\ pc = "idle" /\ attempt = 0 /\ calls = <<>> /\ sleeps = <<>>
    /\ last_exception = None /\ result = NoResult
    /\ data = NoData /\ response_type = "metobs" /\ validation = NoValidation
    /\ range_value = 0 /\ range_parameter = "none" /\ custom_thresholds = None
    /\ range_result = NoRangeResult
    /\ station_ids = <<>> /\ batch_pc = "idle" /\ fetched = <<>> /\ all_data = <<>>
    /\ st_messages = <<>> /\ table_rows = <<>>
    /\ score_results = <<>> /\ range_score = None
    /\ completeness_args = NoArgs /\ completeness_result = None
    /\ anomaly_args = NoArgs /\ anomaly_result = None /\ anomaly_rate = None

NextScorer ==
    \/ \E schema_valid \in BOOLEAN : CalculateQualityScore(schema_valid)
    \/ AggregateStationScores

SpecScorer == InitScorer /\ [][NextScorer]_vars

----------------------------------------------------------------------------
(* Reading the fetcher's state.                                            *)
Is2xx(o) == o.kind = "response" /\ 200 <= o.status_code /\ o.status_code < 300

Is5xx(o) == o.kind = "response" /\ 500 <= o.status_code /\ o.status_code < 600

Is429(o) == o.kind = "response" /\ o.status_code = 429

IsOther4xx(o) ==
    o.kind = "response" /\ 400 <= o.status_code /\ o.status_code < 500
    /\ o.status_code # 429

IsTransient(o) == o.kind \in {"Timeout", "ConnectionError"} \/ Is5xx(o)

LastCall == calls[Len(calls)]

IsPayload(r) == r.kind = "return"

IsClientErrorResult(r) == r.kind = "APIError" /\ r.status_code # None

IsRateLimited(r) == r.kind = "RateLimitError"

IsTransportError(r) == r.kind = "APIError" /\ r.status_code = None

(* C1: for any sequence of per-attempt outcomes drawn from timeout,        *)
(* connection error, HTTP 5xx and HTTP 2xx, the fetch issues requests one  *)
(* after another until the first 2xx or until max_retries+1 requests have  *)
(* been made; it returns the 2xx payload in the first case and fails with  *)
(* TransportError in the second, and never issues more than max_retries+1  *)
(* requests.                                                               *)
C1_RetryUntil2xxOrExhausted ==
    (\A i \in 1..Len(calls) : IsTransient(calls[i]) \/ Is2xx(calls[i])) =>
        /\ Len(calls) <= max_retries + 1
        /\ \A i \in 1..(Len(calls) - 1) : ~Is2xx(calls[i])
        /\ (pc = "done") <=>
              (Len(calls) > 0 /\ (Is2xx(LastCall) \/ Len(calls) = max_retries + 1))
        /\ (pc = "done" /\ Is2xx(LastCall)) =>
              /\ IsPayload(result)
              /\ result.value = Some(LastCall.body.data)
        /\ (pc = "done" /\ ~Is2xx(LastCall)) => IsTransportError(result)

(* The retry loop of C1 where every 2xx carries a body that decodes: the   *)
(* request count, the stop at the first 2xx and both results.              *)
RetryLoopOnDecodableBodies ==
    /\ Len(calls) <= max_retries + 1
    /\ Len(calls) + Len(sleeps) <= 2 * max_retries + 1
    /\ (\A i \in 1..Len(calls) :
            IsTransient(calls[i]) \/ (Is2xx(calls[i]) /\ calls[i].body.json)) =>
        /\ \A i \in 1..(Len(calls) - 1) : ~Is2xx(calls[i])
        /\ (pc = "done") <=>
              (Len(calls) > 0 /\ (Is2xx(LastCall) \/ Len(calls) = max_retries + 1))
        /\ (pc = "done" /\ Is2xx(LastCall)) =>
              result = Result("return", None, Some(LastCall.body.data), None)
        /\ (pc = "done" /\ ~Is2xx(LastCall)) => IsTransportError(result)

(* Every call ends.                                                        *)
FetchTerminates == <>(pc = "done")

(* C2: an HTTP 4xx other than 429 ends the fetch at once with ClientError  *)
(* carrying that status: no further request and no sleep after it,         *)
(* however many retries remain.                                            *)
C2_ClientErrorFailsImmediately ==
    \A i \in 1..Len(calls) :
        IsOther4xx(calls[i]) =>
            /\ i = Len(calls)
            /\ pc = "done"
            /\ result.kind = "APIError"
            /\ result.status_code = Some(calls[i].status_code)
            /\ Len(sleeps) = i - 1

C2_Witness ==
    /\ pc = "done"
    /\ Len(calls) = 2
    /\ max_retries = 3
    /\ IsOther4xx(LastCall)
    /\ IsClientErrorResult(result)

(* C3: an HTTP 429 makes the fetch raise RateLimited on that attempt, with *)
(* no further request and no sleep, and the error carries retry_after: the *)
(* seconds of the Retry-After header, or 60 when the header is absent.     *)
C3_RateLimitedCarriesRetryAfter ==
    \A i \in 1..Len(calls) :
        Is429(calls[i]) =>
            /\ i = Len(calls)
            /\ pc = "done"
            /\ Len(sleeps) = i - 1
            /\ IsRateLimited(result)
            /\ calls[i].retry_after = None => result.msg_retry_after = Some(60)
            /\ (calls[i].retry_after # None /\ IntParses(calls[i].retry_after[1])) =>
                  result.msg_retry_after = Some(IntOf(calls[i].retry_after[1]))

(* What holds of a 429: the call ends on it without another request or a  *)
(* sleep, and when the header is absent or whole seconds the error is      *)
(* RateLimitError with status 429 and the seconds in its message.          *)
RateLimitEndsTheCall ==
    \A i \in 1..Len(calls) :
        Is429(calls[i]) =>
            /\ i = Len(calls)
            /\ pc = "done"
            /\ Len(sleeps) = i - 1
            /\ calls[i].retry_after = None =>
                  result = Result("RateLimitError", Some(429), None, Some(60))
            /\ (calls[i].retry_after # None /\ IntParses(calls[i].retry_after[1])) =>
                  result = Result("RateLimitError", Some(429), None,
                                  Some(IntOf(calls[i].retry_after[1])))

(* C4: after zero-indexed attempt k fails retryably and another attempt    *)
(* follows, the fetch sleeps backoff_factor^k seconds; a sleep happens     *)
(* only between two attempts, so a call of r requests sleeps r-1 times and *)
(* never after its final attempt.                                          *)
C4_BackoffBetweenAttempts ==
    /\ \A k \in 1..Len(sleeps) :
          /\ sleeps[k] = RETRY_BACKOFF_FACTOR ^ (k - 1)
          /\ IsTransient(calls[k])
    /\ pc = "request" =>
          /\ Len(sleeps) = Len(calls)
          /\ Len(calls) < max_retries + 1
    /\ pc = "backoff" =>
          /\ Len(sleeps) = Len(calls) - 1
          /\ Len(calls) < max_retries + 1
    /\ pc = "done" => Len(sleeps) = Len(calls) - 1

C4_Witness ==
    /\ pc = "done"
    /\ Len(calls) = 4
    /\ sleeps = <<1, 2, 4>>

(* C5: every call to fetch ends in the decoded payload of a 2xx response,  *)
(* ClientError, RateLimited or TransportError, for every response the      *)
(* server can send, a 2xx whose body is no JSON and a 429 whose            *)
(* Retry-After is no integer included.                                     *)
C5_OnlyTypedOutcomes ==
    pc = "done" =>
        \/ IsPayload(result)
        \/ IsClientErrorResult(result)
        \/ IsRateLimited(result)
        \/ IsTransportError(result)

----------------------------------------------------------------------------
(* Reading the comparison batch.                                           *)
Visited == 1..Len(fetched)

(* fetch_observations returned an ObservationSet that holds observations.  *)
FetchedWithData(i) ==
    fetched[i].obs # NoObservationSet /\ Len(fetched[i].obs[1].observations) > 0

Reported(sid) == \E r \in 1..Len(table_rows) : table_rows[r].station = sid

Analyzed(sid) == \E a \in 1..Len(all_data) : all_data[a].station = sid

(* C6: in a multi-station batch, whichever stations fail to fetch, the     *)
(* batch is not aborted and the quality evaluation of every successfully   *)
(* fetched station is reported, also when only one station succeeds.       *)
C6_PartialResultsReported ==
    batch_pc = "done" =>
        \A i \in Visited : FetchedWithData(i) => Reported(station_ids[i])

(* What holds of the batch: every station fetched with data is analyzed,   *)
(* and all of them are reported once two or more are.                      *)
ReportedWhenTwoSucceed ==
    /\ \A i \in Visited : FetchedWithData(i) <=> Analyzed(station_ids[i])
    /\ batch_pc = "done" =>
          IF Cardinality({i \in Visited : FetchedWithData(i)}) >= 2
          THEN \A i \in Visited : FetchedWithData(i) <=> Reported(station_ids[i])
          ELSE table_rows = <<>>

(* C7: when a fetched payload fails schema validation the pipeline does    *)
(* not abort: it produces a QualityScore for that station, whose           *)
(* schema_validity component is 0.                                         *)
C7_SchemaInvalidScoresZero ==
    \A i \in Visited :
        (/\ fetched[i].outcome.raised = "none"
         /\ ~validate_observation_response(fetched[i].outcome.response, "metobs").valid)
        => \E a \in 1..Len(all_data) :
              /\ all_data[a].station = station_ids[i]
              /\ all_data[a].analysis.quality_score.components.schema_validity = 0

(* What holds instead: no analysis ever carries a schema validity other    *)
(* than 100.                                                               *)
SchemaValidityAlways100 ==
    \A a \in 1..Len(all_data) :
        all_data[a].analysis.quality_score.components.schema_validity = 100

----------------------------------------------------------------------------
(* Reading the schema validation.                                          *)
Validated == validation # NoValidation

OneResult(valid, severity) ==
    /\ validation.valid = valid
    /\ Len(validation.results) = 1
    /\ validation.results[1].valid = valid
    /\ validation.results[1].severity = severity

NumericString(j) == j.t = "str" /\ FloatParses(j.s)

CoercesToInt(j) ==
    \/ j.t = "int"
    \/ j.t = "float" /\ j.n % 10 = 0
    \/ j.t = "str" /\ IntParses(j.s)

BlockAbsentOrNull(m) == m.shape \in {"absent", "null"}

----------------------------------------------------------------------------
(* Reading the range check.                                                *)
Checked == range_result # NoRangeResult

CustomGiven == custom_thresholds # None /\ DOMAIN custom_thresholds[1] # {}

Registered == range_parameter \in DOMAIN RANGE_THRESHOLDS

(* The thresholds the check goes by: the custom ones, else the registered  *)
(* ones, else none.                                                        *)
InForce ==
    IF CustomGiven THEN custom_thresholds[1]
    ELSE IF Registered THEN RANGE_THRESHOLDS[range_parameter]
    ELSE <<>>

Has(k) == k \in DOMAIN InForce

(* warn_min and warn_max default to min and max.                           *)
WarnKey(k) ==
    IF Has(k) THEN k ELSE IF k = "warn_min" THEN "min" ELSE "max"

Verdict(severity, violated) == <<severity, violated>>

(* C9: check_range decides by first match: value < min critical (min),     *)
(* value > max critical (max), value < warn_min warning (warn_min),        *)
(* value > warn_max warning (warn_max), otherwise ok; the comparisons are  *)
(* strict, so a value equal to a bound is never flagged by that bound; a   *)
(* parameter without thresholds yields ok.                                 *)
C9_FirstMatchStrictOrder ==
    Checked =>
        LET v == range_value
            expected ==
                IF Has("min") /\ v < InForce["min"]
                THEN Verdict("critical", Some("min"))
                ELSE IF Has("max") /\ v > InForce["max"]
                THEN Verdict("critical", Some("max"))
                ELSE IF Has(WarnKey("warn_min")) /\ v < InForce[WarnKey("warn_min")]
                THEN Verdict("warning", Some("warn_min"))
                ELSE IF Has(WarnKey("warn_max")) /\ v > InForce[WarnKey("warn_max")]
                THEN Verdict("warning", Some("warn_max"))
                ELSE Verdict("ok", None)
        IN /\ Verdict(range_result.severity, range_result.threshold_violated) = expected
           /\ range_result.value = v
           /\ range_result.parameter = range_parameter
           /\ \A k \in DOMAIN InForce :
                 v = InForce[k] => range_result.threshold_violated # Some(k)
           /\ (Has("max") /\ v = InForce["max"]) => range_result.severity # "critical"
              \/ (Has("min") /\ v < InForce["min"])
           /\ (~Registered /\ ~CustomGiven) => range_result.severity = "ok"

(* A value exactly at the registered maximum, which is also the warning    *)
(* maximum, has been checked and found ok.                                 *)
C9_Witness ==
    /\ Checked
    /\ custom_thresholds = None
    /\ range_parameter = "humidity"
    /\ range_value = RANGE_THRESHOLDS.humidity.max
    /\ range_result.severity = "ok"

(* C10: every parameter of the registered range thresholds has            *)
(* min <= warn_min <= warn_max <= max; stated of the parameter at hand,    *)
(* which ranges over all registered ones.                                  *)
C10_ThresholdsOrdered ==
    Registered =>
        LET th == RANGE_THRESHOLDS[range_parameter] IN
        /\ th.min <= th.warn_min
        /\ th.warn_min <= th.warn_max
        /\ th.warn_max <= th.max

(* A registered parameter has been checked against its own thresholds and  *)
(* a value between the warning and the critical maximum drew a warning.    *)
C10_Witness ==
    /\ Checked
    /\ custom_thresholds = None
    /\ Registered
    /\ range_value > RANGE_THRESHOLDS[range_parameter].warn_max
    /\ range_value < RANGE_THRESHOLDS[range_parameter].max
    /\ range_result.severity = "warning"

----------------------------------------------------------------------------
(* Reading the range validity score.                                       *)
Scored == range_score # None

CountOf(severity) ==
    Cardinality({i \in 1..Len(score_results) : score_results[i].severity = severity})

(* C11: the range validity score equals (ok x 1.0 + warning x 0.5 +        *)
(* critical x 0.0) / count x 100, lies within [0,100] and is 100 for no    *)
(* results; 4 ok and 1 warning score 90.                                   *)
C11_RangeValidityScore ==
    Scored =>
        LET s == range_score[1]
            count == Len(score_results)
        IN /\ s.den > 0
           /\ 0 <= s.num /\ s.num <= 100 * s.den
           /\ count = 0 => s.num = 100 * s.den
           /\ count > 0 =>
                 s.num * 2 * count =
                     (2 * CountOf("ok") + CountOf("warning")) * 100 * s.den
           /\ CountOf("ok") + CountOf("warning") + CountOf("critical") = count
           /\ (CountOf("ok") = 4 /\ CountOf("warning") = 1 /\ count = 5) =>
                 s.num = 90 * s.den

(* Four ok results and one warning have been scored.                       *)
C11_Witness ==
    /\ Scored
    /\ Len(score_results) = 5
    /\ CountOf("ok") = 4 /\ CountOf("warning") = 1
    /\ range_score[1].num = 90 * range_score[1].den

----------------------------------------------------------------------------
(* Reading a completeness analysis.                                        *)
CompletenessAnalyzed == completeness_result # None

Interval == completeness_args.expected_interval

Stamps == completeness_args.timestamps

SortedStamps == sorted(Stamps)

WindowStart ==
    IF completeness_args.start_time # None THEN completeness_args.start_time[1]
    ELSE SortedStamps[1]

WindowEnd ==
    IF completeness_args.end_time # None THEN completeness_args.end_time[1]
    ELSE SortedStamps[Len(SortedStamps)]

(* C12: for non-empty input total_present is the number of timestamps,     *)
(* total_expected is max(1, floor(window span / expected_interval) + 1),   *)
(* completeness_percent is min(100, present / expected x 100), within      *)
(* [0,100], and passes_threshold holds exactly when it reaches             *)
(* min_completeness; empty input yields the zero-filled failing result.    *)
C12_CompletenessCounts ==
    CompletenessAnalyzed =>
        LET r == completeness_result[1]
            p == r.completeness_percent
            floor == (WindowEnd - WindowStart) \div Interval
        IN IF Stamps # <<>>
           THEN /\ r.total_present = Len(Stamps)
                /\ r.total_expected = (IF floor + 1 > 1 THEN floor + 1 ELSE 1)
                /\ p.den > 0 /\ 0 <= p.num /\ p.num <= 100 * p.den
                /\ IF r.total_present >= r.total_expected
                   THEN p.num = 100 * p.den
                   ELSE p.num * r.total_expected = r.total_present * 100 * p.den
                /\ r.passes_threshold <=>
                       (p.num >= completeness_args.min_completeness * p.den)
           ELSE /\ r.total_expected = 0 /\ r.total_present = 0
                /\ p.num = 0
                /\ r.gaps = <<>> /\ r.longest_gap = None
                /\ r.passes_threshold = FALSE

(* A window given by the caller that expects more samples than are there:  *)
(* the series fails a threshold it was held to.                            *)
C12_Witness ==
    /\ CompletenessAnalyzed
    /\ completeness_args.end_time # None
    /\ Len(Stamps) = 2
    /\ completeness_result[1].total_expected = 3
    /\ completeness_result[1].completeness_percent.num * 3 =
           200 * completeness_result[1].completeness_percent.den
    /\ ~completeness_result[1].passes_threshold

(* The gaps of the claim: the consecutive pairs more than one and a half   *)
(* expected intervals apart.                                               *)
PairsApart ==
    LET pairs == [i \in 1..(Len(SortedStamps) - 1) |->
                    [start |-> SortedStamps[i], end |-> SortedStamps[i + 1],
                     duration |-> SortedStamps[i + 1] - SortedStamps[i],
                     missing_count |->
                        ((SortedStamps[i + 1] - SortedStamps[i]) \div Interval) - 1]]
    IN SelectSeq(pairs, LAMBDA g : 2 * g.duration > 3 * Interval)

GapsAsClaimed ==
    LET r == completeness_result[1]
    IN /\ r.gaps = PairsApart
       /\ r.longest_gap = None <=> r.gaps = <<>>
       /\ r.gaps # <<>> =>
             \E i \in 1..Len(r.gaps) :
                 /\ r.longest_gap = Some(r.gaps[i])
                 /\ \A j \in 1..Len(r.gaps) :
                        /\ r.gaps[j].duration <= r.gaps[i].duration
                        /\ j < i => r.gaps[j].duration < r.gaps[i].duration
       /\ (Stamps = <<0, 4, 8, 24, 28, 32, 36>> /\ Interval = 4) =>
             /\ Len(r.gaps) = 1
             /\ r.gaps[1].missing_count = 3
             /\ r.longest_gap = Some(r.gaps[1])

(* C13: a gap is reported for exactly the consecutive pairs of the sorted  *)
(* timestamps whose delta is strictly greater than 1.5 x expected_interval, *)
(* in ascending order, with start, end, duration = delta and missing_count *)
(* = floor(delta / expected_interval) - 1; longest_gap is the first gap of *)
(* maximal duration, absent exactly when there is no gap; hours 0, 1, 2,   *)
(* 6, 7, 8, 9 give one gap with missing_count 3, the longest.              *)
C13_GapsBeyondOneAndAHalfIntervals ==
    (CompletenessAnalyzed /\ Stamps # <<>>) => GapsAsClaimed

(* The same where one and a half expected intervals round to themselves or *)
(* downwards.                                                              *)
GapsWhereThresholdRoundsDown ==
    (CompletenessAnalyzed /\ Stamps # <<>> /\ Interval % 4 # 1) => GapsAsClaimed

(* C14: the missing_count of every gap is the number of expected sample    *)
(* instants start + k x expected_interval, k >= 1, strictly between the    *)
(* gap's start and end.                                                    *)
C14_MissingCountsExpectedInstants ==
    CompletenessAnalyzed =>
        \A i \in 1..Len(completeness_result[1].gaps) :
            LET g == completeness_result[1].gaps[i]
            IN g.missing_count =
                   Cardinality({k \in 1..g.duration : g.start + k * Interval < g.end})

(* The same for the gaps that are a whole number of expected intervals.    *)
MissingCountOfWholeGaps ==
    CompletenessAnalyzed =>
        \A i \in 1..Len(completeness_result[1].gaps) :
            LET g == completeness_result[1].gaps[i]
            IN g.duration % Interval = 0 =>
                   g.missing_count =
                       Cardinality({k \in 1..g.duration : g.start + k * Interval < g.end})

PerfectlyPeriodic ==
    /\ Stamps # <<>>
    /\ completeness_args.start_time = None /\ completeness_args.end_time = None
    /\ \A i \in 1..(Len(SortedStamps) - 1) :
           SortedStamps[i + 1] - SortedStamps[i] = Interval

(* C15: a perfectly periodic series (n >= 1 timestamps exactly             *)
(* expected_interval apart, default window) has completeness_percent 100,  *)
(* no gaps, no longest_gap, and passes any min_completeness <= 100.        *)
C15_PeriodicSeriesComplete ==
    (CompletenessAnalyzed /\ PerfectlyPeriodic) =>
        LET r == completeness_result[1]
        IN /\ r.completeness_percent.num = 100 * r.completeness_percent.den
           /\ r.gaps = <<>>
           /\ r.longest_gap = None
           /\ completeness_args.min_completeness <= 100 => r.passes_threshold

(* Three timestamps one microsecond apart, given out of order and held to  *)
(* 100 percent, have been analyzed.                                        *)
C15_Witness ==
    /\ CompletenessAnalyzed
    /\ PerfectlyPeriodic
    /\ Stamps = <<2, 0, 1>> /\ Interval = 1
    /\ completeness_args.min_completeness = 100
    /\ completeness_result[1].passes_threshold

----------------------------------------------------------------------------
(* Reading the detectors' results.                                         *)
Combined == anomaly_result # None /\ anomaly_args.call = "detect_all_anomalies"

ZscoreDetected == anomaly_result # None /\ anomaly_args.call = "detect_zscore_anomalies"

Selected(m) ==
    \/ anomaly_args.methods = None
    \/ \E i \in 1..Len(anomaly_args.methods[1]) : anomaly_args.methods[1][i] = m

(* What the selected detectors find, one after the other.                  *)
Findings ==
    (IF Selected("zscore")
     THEN detect_zscore_anomalies(anomaly_args.values, anomaly_args.timestamps,
              ZSCORE_THRESHOLD, None)
     ELSE <<>>)
    \o (IF Selected("iqr")
        THEN detect_iqr_anomalies(anomaly_args.values, anomaly_args.timestamps,
                 IQR_MULTIPLIER)
        ELSE <<>>)
    \o (IF Selected("rate_of_change")
        THEN detect_rate_of_change_anomalies(anomaly_args.values,
                 anomaly_args.timestamps, anomaly_args.parameter, None)
        ELSE <<>>)

Occurrences(a, s) == Cardinality({i \in 1..Len(s) : s[i] = a})

MethodRank(m) == CHOOSE i \in 1..3 : AnomalyMethods[i] = m

(* C16: the list detect_all_anomalies returns is sorted by timestamp, in   *)
(* non-decreasing order, for every series and every selection of methods,  *)
(* also when the timestamps of the input are not sorted.                   *)
C16_CombinedSortedByTimestamp ==
    Combined =>
        \A i, j \in 1..Len(anomaly_result[1]) :
            i < j => anomaly_result[1][i].timestamp <= anomaly_result[1][j].timestamp

(* Anomalies of a series with descending timestamps have been combined:    *)
(* the later observation's anomaly was found first and comes last.         *)
C16_Witness ==
    /\ Combined
    /\ Len(anomaly_result[1]) >= 2
    /\ Len(anomaly_args.values) >= 2
    /\ anomaly_args.timestamps[1] > anomaly_args.timestamps[2]
    /\ Findings # anomaly_result[1]

C18_CombinedDeduplicated ==
    Combined =>
        \A i, j \in 1..Len(anomaly_result[1]) :
            i # j => anomaly_result[1][i].timestamp # anomaly_result[1][j].timestamp

GlobalMode ==
    \/ anomaly_args.window_size = None
    \/ anomaly_args.window_size[1] >= Len(anomaly_args.values)

(* The points further than the threshold from the mean, in multiples of    *)
(* the standard deviation: with n values of sum S and sum of squares Q,    *)
(* n^2 variance = n Q - S^2 and n (value - mean) = n value - S.            *)
FarFromMean ==
    LET vs == anomaly_args.values
        n == Len(vs)
        S == Sum(vs)
        Q == Sum([i \in 1..n |-> vs[i] * vs[i]])
        t == anomaly_args.threshold
    IN IF n < 3 \/ n * Q - S * S = 0 THEN <<>>
       ELSE SelectSeq([i \in 1..n |-> i],
                LAMBDA i : (n * vs[i] - S) * (n * vs[i] - S) > t * t * (n * Q - S * S))

(* C19: in global mode (no window_size, or one not smaller than the        *)
(* series) detect_zscore_anomalies finds nothing in a series of fewer than *)
(* 3 points or of standard deviation 0, and otherwise flags exactly the    *)
(* points with |value - mean| / std strictly above the threshold, in input *)
(* order, each with method zscore; nine values near 5 followed by 50.0     *)
(* with threshold 2.0 flag the 50.0.                                       *)
C19_GlobalZscoreFlagsFarPoints ==
    (ZscoreDetected /\ GlobalMode) =>
        LET out == anomaly_result[1]
        IN /\ Len(out) = Len(FarFromMean)
           /\ \A k \in 1..Len(out) :
                 /\ out[k].timestamp = anomaly_args.timestamps[FarFromMean[k]]
                 /\ out[k].value = anomaly_args.values[FarFromMean[k]]
                 /\ out[k].method = "zscore"
           /\ (/\ anomaly_args.values = <<50, 51, 50, 52, 50, 51, 50, 51, 50, 500>>
               /\ anomaly_args.threshold = 2) =>
                 \E k \in 1..Len(out) : out[k].value = 500

(* The series of the test has been searched with threshold 2.0 and the     *)
(* 50.0 was flagged.                                                       *)
C19_Witness ==
    /\ ZscoreDetected
    /\ GlobalMode
    /\ anomaly_args.values = <<50, 51, 50, 52, 50, 51, 50, 51, 50, 500>>
    /\ anomaly_args.threshold = 2
    /\ Len(anomaly_result[1]) = 1
    /\ anomaly_result[1][1].value = 500
    /\ anomaly_result[1][1].method = "zscore"

----------------------------------------------------------------------------
(* Reading the quality scores.                                             *)
QualityScored(b) == quality_scores[b] # None

(* The weights supplied, or the default ones of the specification:         *)
(* schema 0.20, completeness 0.30, range 0.25, anomaly 0.25.               *)
DefaultWeighted == quality_args.weights \in {None, Some(<<>>)}

WeightsUsed ==
    IF DefaultWeighted
    THEN [schema_validity |-> 20, completeness |-> 30, range_validity |-> 25,
          anomaly_rate |-> 25]
    ELSE quality_args.weights[1]

Clamped(x) == IF x > 1000 THEN 1000 ELSE IF x < 0 THEN 0 ELSE x

(* The weighted sum of the four components, in thousandths.                *)
WeightedSum(b) ==
    (IF b THEN 1000 ELSE 0) * WeightsUsed.schema_validity
    + Clamped(quality_args.completeness_percent) * WeightsUsed.completeness
    + Clamped(quality_args.range_validity_percent) * WeightsUsed.range_validity
    + Clamped(1000 - quality_args.anomaly_rate_percent) * WeightsUsed.anomaly_rate

(* overall is the weighted sum rounded to one decimal, and the two         *)
(* examples of the claim.                                                  *)
OverallAsClaimed(b) ==
    LET s == quality_scores[b][1]
    IN /\ s.overall * 100 - WeightedSum(b) \in -50..50
       /\ s.components =
              [schema_validity |-> IF b THEN 1000 ELSE 0,
               completeness |-> Clamped(quality_args.completeness_percent),
               range_validity |-> Clamped(quality_args.range_validity_percent),
               anomaly_score |-> Clamped(1000 - quality_args.anomaly_rate_percent)]
       /\ (/\ b /\ DefaultWeighted
           /\ quality_args.completeness_percent = 1000
           /\ quality_args.range_validity_percent = 1000
           /\ quality_args.anomaly_rate_percent = 0) =>
             (s.overall = 1000 /\ s.grade = "A")
       /\ (/\ ~b /\ DefaultWeighted
           /\ quality_args.completeness_percent = 0
           /\ quality_args.range_validity_percent = 0
           /\ quality_args.anomaly_rate_percent = 1000) =>
             (s.overall = 0 /\ s.grade = "F")

SchemaDrop == quality_scores[TRUE][1].overall - quality_scores[FALSE][1].overall

(* C20 as stated: overall is the sum of component x weight rounded to one  *)
(* decimal, the weights used as supplied; under default weights            *)
(* (True,100,100,0) scores 100 with grade A, (False,0,0,100) scores 0 with *)
(* grade F, and switching schema_valid from True to False with everything  *)
(* else fixed lowers overall by exactly 20.                                *)
C20_SchemaDropExactlyTwenty ==
    /\ \A b \in BOOLEAN : QualityScored(b) => OverallAsClaimed(b)
    /\ (QualityScored(TRUE) /\ QualityScored(FALSE) /\ DefaultWeighted) =>
           SchemaDrop = 200

(* C20, amended: as above, but the drop is exactly 20 with the other       *)
(* inputs at 100/100/0, and otherwise 20 give or take the one-decimal      *)
(* rounding of the two scores.                                             *)
C20_SchemaDropTwentyUpToRounding ==
    /\ \A b \in BOOLEAN : QualityScored(b) => OverallAsClaimed(b)
    /\ (QualityScored(TRUE) /\ QualityScored(FALSE) /\ DefaultWeighted) =>
           /\ SchemaDrop \in 199..201
           /\ WeightedSum(TRUE) - WeightedSum(FALSE) = 20000
           /\ (/\ quality_args.completeness_percent = 1000
               /\ quality_args.range_validity_percent = 1000
               /\ quality_args.anomaly_rate_percent = 0) => SchemaDrop = 200

(* Perfect data scored with and without a valid schema: 100 and 80.        *)
C20_Witness ==
    /\ QualityScored(TRUE) /\ QualityScored(FALSE)
    /\ quality_args.weights = None
    /\ quality_args.completeness_percent = 1000
    /\ quality_args.range_validity_percent = 1000
    /\ quality_args.anomaly_rate_percent = 0
    /\ quality_scores[TRUE][1].overall = 1000
    /\ quality_scores[TRUE][1].grade = "A"
    /\ quality_scores[FALSE][1].overall = 800

(***************************************************************************)
(* The bounds of the scores.                                               *)
(***************************************************************************)

Aggregated == aggregate_result # None

ComponentNames == {"schema_validity", "completeness", "range_validity", "anomaly_score"}

(* The weights used are non-negative and sum to 1.0.                       *)
WeightsSumToOne ==
    /\ WeightsUsed.schema_validity >= 0 /\ WeightsUsed.completeness >= 0
    /\ WeightsUsed.range_validity >= 0 /\ WeightsUsed.anomaly_rate >= 0
    /\ WeightsUsed.schema_validity + WeightsUsed.completeness
       + WeightsUsed.range_validity + WeightsUsed.anomaly_rate = 100

(* C21: every QualityScore returned by calculate_quality_score under       *)
(* non-negative weights summing to 1.0, and every one returned by          *)
(* aggregate_station_scores over such scores, has its overall and its four *)
(* components within [0,100], also for inputs below 0 or above 100.        *)
C21_ScoresWithinBounds ==
    /\ \A b \in BOOLEAN : (QualityScored(b) /\ WeightsSumToOne) =>
           /\ quality_scores[b][1].overall \in 0..1000
           /\ \A c \in ComponentNames :
                  quality_scores[b][1].components[c] \in 0..1000
    /\ Aggregated =>
           /\ aggregate_result[1].overall \in 0..1000
           /\ \A c \in ComponentNames :
                  /\ aggregate_result[1].components[c].num >= 0
                  /\ aggregate_result[1].components[c].num
                         <= 1000 * aggregate_result[1].components[c].den

(* Completeness 120 and an anomaly rate of -5 percent scored under weights *)
(* that sum to 1.0: both components are 100.                               *)
C21_Witness ==
    /\ QualityScored(TRUE) /\ WeightsSumToOne
    /\ quality_args.completeness_percent = 1200
    /\ quality_args.anomaly_rate_percent = -50
    /\ quality_scores[TRUE][1].components.completeness = 1000
    /\ quality_scores[TRUE][1].components.anomaly_score = 1000

(***************************************************************************)
(* The grade of a score.                                                   *)
(***************************************************************************)

(* The grade the inclusive thresholds assign to an overall value, in       *)
(* tenths: A from 90, B from 80, C from 70, D from 60, F below.            *)
GradeOfOverall(overall) ==
    IF overall >= 900 THEN "A"
    ELSE IF overall >= 800 THEN "B"
    ELSE IF overall >= 700 THEN "C"
    ELSE IF overall >= 600 THEN "D"
    ELSE "F"

BelowBar(s) ==
    (IF s.components.schema_validity < 1000 THEN {"schema"} ELSE {})
    \cup (IF s.components.completeness < 900 THEN {"completeness"} ELSE {})
    \cup (IF s.components.range_validity < 900 THEN {"range"} ELSE {})
    \cup (IF s.components.anomaly_score < 900 THEN {"anomaly"} ELSE {})

ComponentOrder(message) ==
    CASE message = "schema" -> 1
      [] message = "completeness" -> 2
      [] message = "range" -> 3
      [] message = "anomaly" -> 4
      [] OTHER -> 0

(* C23: the recommendation of calculate_quality_score holds exactly one    *)
(* message for each component below its bar, in component order, and none  *)
(* for a component at or above its bar; when no component is below its bar *)
(* it is the single message that no action is required.                    *)
C23_RecommendationListsComponentsBelowBar ==
    \A b \in BOOLEAN : QualityScored(b) =>
        LET s == quality_scores[b][1]
            rec == s.recommendation
        IN IF BelowBar(s) = {}
           THEN rec = <<"no action required">>
           ELSE /\ {rec[i] : i \in 1..Len(rec)} = BelowBar(s)
                /\ Len(rec) = Cardinality(BelowBar(s))
                /\ \A i \in 1..Len(rec) : \A j \in 1..Len(rec) :
                       i < j => ComponentOrder(rec[i]) < ComponentOrder(rec[j])

(* An invalid schema, completeness at its bar of 90, range validity of 50  *)
(* and an anomaly rate of 50 percent: three messages, none on              *)
(* completeness.                                                           *)
C23_Witness ==
    /\ QualityScored(FALSE)
    /\ quality_args.completeness_percent = 900
    /\ quality_args.range_validity_percent = 500
    /\ quality_args.anomaly_rate_percent = 500
    /\ quality_scores[FALSE][1].recommendation = <<"schema", "range", "anomaly">>

(***************************************************************************)
(* The aggregate of station scores.                                        *)
(***************************************************************************)

AggregatedScores == aggregate_args.scores

(* The sum of the inputs' overall values, and of one of their components.  *)
OverallSum == Sum([i \in 1..Len(AggregatedScores) |-> AggregatedScores[i].overall])

ComponentSum(c) ==
    Sum([i \in 1..Len(AggregatedScores) |-> AggregatedScores[i].components[c]])

(* The aggregate of the empty list, each component the mean of the inputs' *)
(* components, and the grade that of the mean of the inputs' overall.      *)
AggregateOfNone ==
    /\ aggregate_result[1].overall = 0
    /\ \A c \in ComponentNames : aggregate_result[1].components[c].num = 0
    /\ aggregate_result[1].grade = "F"
    /\ aggregate_result[1].recommendation.message = "no data"

ComponentsAreMeans ==
    \A c \in ComponentNames :
        aggregate_result[1].components[c].num * Len(AggregatedScores)
            = ComponentSum(c) * aggregate_result[1].components[c].den

GradeOfMean ==
    LET n == Len(AggregatedScores)
    IN aggregate_result[1].grade =
           (IF OverallSum >= 900 * n THEN "A"
            ELSE IF OverallSum >= 800 * n THEN "B"
            ELSE IF OverallSum >= 700 * n THEN "C"
            ELSE IF OverallSum >= 600 * n THEN "D"
            ELSE "F")

SingleScoreUnchanged ==
    Len(AggregatedScores) = 1 =>
        /\ aggregate_result[1].overall = AggregatedScores[1].overall
        /\ \A c \in ComponentNames :
               aggregate_result[1].components[c].num
                   = AggregatedScores[1].components[c]
                     * aggregate_result[1].components[c].den

(* C24 as stated: the aggregate of an empty list is overall 0.0, all       *)
(* components 0, grade F and a "no data" recommendation; of a non-empty    *)
(* list each component and the overall are the arithmetic means of the     *)
(* inputs' values, the grade is recomputed from the averaged overall, and  *)
(* a single score keeps its overall and components.                        *)
C24_AggregateIsMean ==
    Aggregated =>
        IF AggregatedScores = <<>> THEN AggregateOfNone
        ELSE /\ ComponentsAreMeans
             /\ aggregate_result[1].overall * Len(AggregatedScores) = OverallSum
             /\ GradeOfMean
             /\ SingleScoreUnchanged

(* C24, amended: as above, but the overall returned is the mean of the     *)
(* inputs' overall values rounded to one decimal.                          *)
C24_AggregateIsMeanRoundedToOneDecimal ==
    Aggregated =>
        IF AggregatedScores = <<>> THEN AggregateOfNone
        ELSE /\ ComponentsAreMeans
             /\ 2 * (aggregate_result[1].overall * Len(AggregatedScores) - OverallSum)
                    \in -Len(AggregatedScores)..Len(AggregatedScores)
             /\ GradeOfMean
             /\ SingleScoreUnchanged

(* Scores of 99.9 and 99.8 aggregated: the mean is 99.85, the overall      *)
(* returned has one decimal.                                               *)
C24_Witness ==
    /\ Aggregated
    /\ Len(AggregatedScores) = 2
    /\ AggregatedScores[1].overall = 999
    /\ AggregatedScores[2].overall = 998
    /\ aggregate_result[1].overall \in {998, 999}
    /\ aggregate_result[1].components.anomaly_score.num = 1988
    /\ aggregate_result[1].components.anomaly_score.den = 2

(***************************************************************************)
(* The recommendation of the aggregate.                                    *)
(***************************************************************************)

(* The inputs graded D or F.                                               *)
PoorInputs ==
    {i \in 1..Len(AggregatedScores) : AggregatedScores[i].grade \in {"D", "F"}}

(* C25: for every non-empty list holding at least one score graded D or F  *)
(* the recommendation of aggregate_station_scores reports the number of    *)
(* inputs graded D or F out of the number of inputs; "excellent" and       *)
(* "acceptable" are said only when no input is graded D or F.              *)
C25_RecommendationCountsPoorStations ==
    (Aggregated /\ AggregatedScores # <<>>) =>
        /\ PoorInputs # {} =>
               /\ aggregate_result[1].recommendation.message = "degraded"
               /\ aggregate_result[1].recommendation.poor = Cardinality(PoorInputs)
               /\ aggregate_result[1].recommendation.total = Len(AggregatedScores)
        /\ aggregate_result[1].recommendation.message \in {"excellent", "acceptable"} =>
               PoorInputs = {}

(* C25 holds of the lists whose mean overall is below 90.                  *)
C25_PoorStationsCountedBelowNinety ==
    (Aggregated /\ AggregatedScores # <<>> /\ OverallSum < 900 * Len(AggregatedScores)) =>
        /\ PoorInputs # {} =>
               /\ aggregate_result[1].recommendation.message = "degraded"
               /\ aggregate_result[1].recommendation.poor = Cardinality(PoorInputs)
               /\ aggregate_result[1].recommendation.total = Len(AggregatedScores)
        /\ aggregate_result[1].recommendation.message \in {"excellent", "acceptable"} =>
               PoorInputs = {}

(***************************************************************************)
(* The rolling z-score.                                                    *)
(***************************************************************************)

WindowedMode ==
    /\ anomaly_args.window_size # None
    /\ anomaly_args.window_size[1] > 0
    /\ anomaly_args.window_size[1] < Len(anomaly_args.values)

(* The points further than the threshold from the mean of the window_size  *)
(* samples before them, in multiples of the standard deviation of those    *)
(* samples: with w samples of sum S and sum of squares Q,                  *)
(* w^2 variance = w Q - S^2 and w (value - mean) = w value - S.            *)
FarFromWindowMean ==
    LET vs == anomaly_args.values
        w == anomaly_args.window_size[1]
        t == anomaly_args.threshold
        S(i) == Sum([j \in 1..w |-> vs[i - w - 1 + j]])
        Q(i) == Sum([j \in 1..w |-> vs[i - w - 1 + j] * vs[i - w - 1 + j]])
    IN SelectSeq([k \in 1..(Len(vs) - w) |-> k + w],
           LAMBDA i : /\ w * Q(i) - S(i) * S(i) > 0
                      /\ (w * vs[i] - S(i)) * (w * vs[i] - S(i))
                             > t * t * (w * Q(i) - S(i) * S(i)))

(* Whether the point at position i of a series is flagged under the        *)
(* threshold and window of the call.                                       *)
ZscoreVerdict(series, i) ==
    LET out == detect_zscore_anomalies(series, [j \in 1..Len(series) |-> j],
                   anomaly_args.threshold, anomaly_args.window_size)
    IN \E k \in 1..Len(out) : out[k].timestamp = i

IqrDetected == anomaly_result # None /\ anomaly_args.call = "detect_iqr_anomalies"

(* Four times the quartiles and their distance.                            *)
Q1x4 == Percentile4(anomaly_args.values, 1)

Q3x4 == Percentile4(anomaly_args.values, 3)

IQRx4 == Q3x4 - Q1x4

(* v strictly below Q1 - m IQR, strictly above Q3 + m IQR, m = num / den.  *)
BelowLowerBound(v) ==
    4 * anomaly_args.multiplier.den * v
        < anomaly_args.multiplier.den * Q1x4 - anomaly_args.multiplier.num * IQRx4

AboveUpperBound(v) ==
    4 * anomaly_args.multiplier.den * v
        > anomaly_args.multiplier.den * Q3x4 + anomaly_args.multiplier.num * IQRx4

(* The positions of the values outside the bounds, none in a series of     *)
(* fewer than 4 points.                                                    *)
OutsideBounds ==
    IF Len(anomaly_args.values) < 4 THEN <<>>
    ELSE SelectSeq([i \in 1..Len(anomaly_args.values) |-> i],
             LAMBDA i : \/ BelowLowerBound(anomaly_args.values[i])
                        \/ AboveUpperBound(anomaly_args.values[i]))

(* Four times m times the distance of v from the nearest bound.            *)
DistanceFromBound(v) ==
    IF BelowLowerBound(v)
    THEN anomaly_args.multiplier.den * Q1x4 - anomaly_args.multiplier.num * IQRx4
         - 4 * anomaly_args.multiplier.den * v
    ELSE 4 * anomaly_args.multiplier.den * v
         - anomaly_args.multiplier.den * Q3x4 - anomaly_args.multiplier.num * IQRx4

(* Four times the distance of v from the quartile on its side.             *)
DistanceFromQuartile(v) ==
    IF BelowLowerBound(v) THEN Q1x4 - 4 * v ELSE 4 * v - Q3x4

(* The flagged values are those outside the bounds, in input order.        *)
FlagsOutsideBounds ==
    /\ Len(anomaly_result[1]) = Len(OutsideBounds)
    /\ \A k \in 1..Len(OutsideBounds) :
          /\ anomaly_result[1][k].timestamp = anomaly_args.timestamps[OutsideBounds[k]]
          /\ anomaly_result[1][k].value = anomaly_args.values[OutsideBounds[k]]
          /\ anomaly_result[1][k].method = "iqr"

(* high above 3, medium above 2, else low, of the deviation reported.      *)
SeverityOfDeviation(a) ==
    a.severity =
        (IF a.deviation.num > 3 * a.deviation.den THEN "high"
         ELSE IF a.deviation.num > 2 * a.deviation.den THEN "medium"
         ELSE "low")

(* C27 as stated: detect_iqr_anomalies returns nothing for fewer than 4    *)
(* points and otherwise flags exactly the values strictly outside          *)
(* [Q1 - m IQR, Q3 + m IQR]; the deviation of a flagged value is its       *)
(* distance from the nearest of the two bounds divided by IQR (0 when IQR  *)
(* is 0), and its severity is high if deviation > 3, medium if > 2, else   *)
(* low.                                                                    *)
C27_IqrDeviationFromNearestBound ==
    IqrDetected =>
        /\ FlagsOutsideBounds
        /\ \A k \in 1..Len(anomaly_result[1]) :
              LET a == anomaly_result[1][k]
              IN /\ IF IQRx4 = 0 THEN a.deviation.num = 0
                    ELSE a.deviation.num * IQRx4 * anomaly_args.multiplier.den
                             = DistanceFromBound(a.value) * a.deviation.den
                 /\ SeverityOfDeviation(a)

(* C27, amended: as above, but the deviation is the distance from the      *)
(* quartile, (Q1 - v) / IQR below the lower bound and (v - Q3) / IQR       *)
(* otherwise.                                                              *)
C27_IqrDeviationFromQuartile ==
    IqrDetected =>
        /\ FlagsOutsideBounds
        /\ \A k \in 1..Len(anomaly_result[1]) :
              LET a == anomaly_result[1][k]
              IN /\ IF IQRx4 = 0 THEN a.deviation.num = 0
                    ELSE a.deviation.num * IQRx4
                             = DistanceFromQuartile(a.value) * a.deviation.den
                 /\ SeverityOfDeviation(a)

(* 0.0, 0.0, 0.0, 20.0 under the default multiplier: Q1 = 0, Q3 = 5, the   *)
(* upper bound is 12.5 and the 20.0 is flagged with deviation 3, which is  *)
(* medium.                                                                 *)
C27_Witness ==
    /\ IqrDetected
    /\ anomaly_args.values = <<0, 0, 0, 200>>
    /\ anomaly_args.multiplier = IQR_MULTIPLIER
    /\ Len(anomaly_result[1]) = 1
    /\ anomaly_result[1][1].value = 200
    /\ anomaly_result[1][1].deviation.num = 3 * anomaly_result[1][1].deviation.den
    /\ anomaly_result[1][1].severity = "medium"

(***************************************************************************)
(* The rate-of-change detector.                                            *)
(***************************************************************************)

RateDetected ==
    anomaly_result # None /\ anomaly_args.call = "detect_rate_of_change_anomalies"

(* The threshold in force: the override when one is supplied, else the     *)
(* registered one of the parameter, else none (infinity).                  *)
ThresholdInForce ==
    IF anomaly_args.custom_threshold # None THEN anomaly_args.custom_threshold
    ELSE IF anomaly_args.parameter = "temperature" THEN Some(100)
    ELSE IF anomaly_args.parameter = "wind_speed" THEN Some(200)
    ELSE IF anomaly_args.parameter = "humidity" THEN Some(300)
    ELSE None

(* The threshold the code puts in force: an override of 0.0 counts as      *)
(* none.                                                                   *)
ThresholdUnlessZero ==
    IF anomaly_args.custom_threshold \notin {None, Some(0)}
    THEN anomaly_args.custom_threshold
    ELSE IF anomaly_args.parameter = "temperature" THEN Some(100)
    ELSE IF anomaly_args.parameter = "wind_speed" THEN Some(200)
    ELSE IF anomaly_args.parameter = "humidity" THEN Some(300)
    ELSE None

Change(i) ==
    IF anomaly_args.values[i] >= anomaly_args.values[i - 1]
    THEN anomaly_args.values[i] - anomaly_args.values[i - 1]
    ELSE anomaly_args.values[i - 1] - anomaly_args.values[i]

(* The later samples of the pairs that change by more than T.              *)
ChangesBeyond(T) ==
    IF T = None THEN <<>>
    ELSE SelectSeq([k \in 1..(Len(anomaly_args.values) - 1) |-> k + 1],
             LAMBDA i : Change(i) > T[1])

ReportsChangesBeyond(T) ==
    /\ Len(anomaly_result[1]) = Len(ChangesBeyond(T))
    /\ \A k \in 1..Len(ChangesBeyond(T)) :
          /\ anomaly_result[1][k].timestamp = anomaly_args.timestamps[ChangesBeyond(T)[k]]
          /\ anomaly_result[1][k].value = anomaly_args.values[ChangesBeyond(T)[k]]
          /\ anomaly_result[1][k].method = "rate_of_change"
          /\ anomaly_result[1][k].deviation.num * T[1]
                 = Change(ChangesBeyond(T)[k]) * anomaly_result[1][k].deviation.den

(* C28: detect_rate_of_change_anomalies returns nothing for fewer than 2   *)
(* points and otherwise flags exactly the indices i >= 1 with              *)
(* |v[i] - v[i-1]| strictly above T, reporting the later sample with       *)
(* deviation change / T, where T is the override for every override the    *)
(* caller supplies, else the registered threshold of the parameter, else   *)
(* infinity, so that an unknown parameter never flags.                     *)
C28_RateThresholdIsOverride ==
    RateDetected => ReportsChangesBeyond(ThresholdInForce)

(* C28 holds with the override of 0.0 taken as no override.                *)
C28_RateThresholdIsOverrideUnlessZero ==
    RateDetected => ReportsChangesBeyond(ThresholdUnlessZero)

(***************************************************************************)
(* The anomaly rate.                                                       *)
(***************************************************************************)

RateCalculated == anomaly_rate # None

(* All three methods were run, under the default thresholds.               *)
AllMethods == \A m \in {"zscore", "iqr", "rate_of_change"} : Selected(m)

(* C29: for the anomalies detect_all_anomalies finds with all three        *)
(* methods in a series of n >= 1 values, calculate_anomaly_rate is         *)
(* count / n x 100 and lies within [0,100]; it is 0 when the total is 0.   *)
C29_AnomalyRateIsPercentage ==
    (RateCalculated /\ AllMethods) =>
        /\ Len(anomaly_args.values) = 0 => anomaly_rate[1].num = 0
        /\ Len(anomaly_args.values) >= 1 =>
              /\ anomaly_rate[1].num * Len(anomaly_args.values)
                     = Len(anomaly_result[1]) * 100 * anomaly_rate[1].den
              /\ anomaly_rate[1].num >= 0
              /\ anomaly_rate[1].num <= 100 * anomaly_rate[1].den

(* The rate is count / n x 100, and within [0,100] when no timestamp is    *)
(* flagged twice.                                                          *)
C29_AnomalyRateOfDistinctPoints ==
    RateCalculated =>
        /\ Len(anomaly_args.values) = 0 => anomaly_rate[1].num = 0
        /\ Len(anomaly_args.values) >= 1 =>
              /\ anomaly_rate[1].num * Len(anomaly_args.values)
                     = Len(anomaly_result[1]) * 100 * anomaly_rate[1].den
              /\ anomaly_rate[1].num >= 0
              /\ (\A i, j \in 1..Len(anomaly_result[1]) :
                      i # j => anomaly_result[1][i].timestamp
                                   # anomaly_result[1][j].timestamp) =>
                     anomaly_rate[1].num <= 100 * anomaly_rate[1].den

(***************************************************************************)
(* Present, missing and expected samples.                                  *)
(***************************************************************************)

(* Distinct timestamps, each a whole number of expected intervals after    *)
(* the earliest, analyzed with the default window.                         *)
OnSamplingGrid ==
    /\ Stamps # <<>>
    /\ completeness_args.start_time = None /\ completeness_args.end_time = None
    /\ \A i \in 1..Len(Stamps) : \A j \in 1..Len(Stamps) :
           i # j => Stamps[i] # Stamps[j]
    /\ \A i \in 1..Len(Stamps) : (Stamps[i] - SortedStamps[1]) % Interval = 0

PresentPlusMissingIsExpected ==
    LET r == completeness_result[1]
    IN /\ r.total_present + Sum([i \in 1..Len(r.gaps) |-> r.gaps[i].missing_count])
              = r.total_expected
       /\ (r.completeness_percent.num < 100 * r.completeness_percent.den)
              <=> (r.gaps # <<>>)
       /\ \A i \in 1..Len(r.gaps) : r.gaps[i].missing_count >= 1

(* C30: for a non-empty set of distinct timestamps on the sampling grid,   *)
(* in any order and with the default window, total_present plus the        *)
(* missing_count of all reported gaps is total_expected; hence             *)
(* completeness_percent is below 100 exactly when a gap is reported, and   *)
(* every gap has missing_count >= 1.                                       *)
C30_PresentPlusMissingIsExpected ==
    (CompletenessAnalyzed /\ OnSamplingGrid) => PresentPlusMissingIsExpected

(* C30 holds for expected intervals of more than one microsecond.          *)
C30_HoldsBeyondOneMicrosecond ==
    (CompletenessAnalyzed /\ OnSamplingGrid /\ Interval > 1) =>
        PresentPlusMissingIsExpected

====
